---- MODULE Spec2Model ----
(***************************************************************************)
(* Model of the codebase analyzer: the traversal-and-aggregation engine of  *)
(* the refactored package (src/src/cobebase_analyzer/core) and of the       *)
(* original modular package (src/core, src/utils).                          *)
(*                                                                          *)
(* Strings are sequences of one-character strings, so that startswith,      *)
(* endswith, `in`, strip, lower and Path.suffix are computed, not assumed.  *)
(* An Optional value is <<>> for None and <<v>> for a value v.              *)
(***************************************************************************)
EXTENDS Integers, Sequences, FiniteSets, TLC

VARIABLES
  version,              \* "refactored" (src/src/cobebase_analyzer) or "original" (src/core)
  tree,                 \* index of the directory tree on disk
  order,                \* the order in which iterdir() yields a directory's entries
  root_exists,          \* whether the project path exists on disk
  config,               \* the Config the analyzer was constructed with
  ignore_patterns,      \* self.ignore_patterns
  given,                \* the arguments CodebaseAnalyzer(...) was called with
  max_depth,            \* self.max_depth
  pc,                   \* "idle" between calls, "walking" inside analyze()
  stack,                \* the active _analyze_directory calls, innermost first
  stats,                \* ProjectStats being accumulated (self.stats in the original)
  files,                \* the FileInfo list (stats['file_details'] in the original)
  largest_files,        \* the largest-files list
  _result,              \* self._result, <<>> for None
  outcome,              \* how the last analyze() call ended
  visited,              \* entries the last analyze() call touched
  runs,                 \* number of analyze() calls made
  successes,            \* number of analyze() calls that returned
  report,               \* the last export_result/generate_report/display_report call
  returned,             \* what each analyze() call returned, in call order
  progress,             \* self.progress
  log,                  \* the directories listed and the files analysed by the last analyze() call
  file_records,         \* per file of the tree, what analysing it yields during this analyze() call
  content,              \* line classifier: the lines read so far
  comment_patterns_in_use, \* line classifier: the CommentPatterns of the file
  line_state,           \* line classifier: in_multiline_comment and the three counters
  ignore_call,          \* ignore matcher: the last call and its result
  offered,              \* largest-files tracker: number of records offered
  last_offered,         \* largest-files tracker: the record offered last, <<>> for none
  registry,             \* file_type_registry._extensions
  registry_call,        \* file-type registry: the last register_extension call
  config_call           \* configuration: the last construction of or assignment to a Config

walk_vars == <<version, tree, order, root_exists, config, given, ignore_patterns, max_depth,
               pc, stack, stats, files, largest_files, _result, outcome, visited, runs,
               successes, report, returned, progress, log, file_records>>
line_vars == <<content, comment_patterns_in_use, line_state>>
registry_vars == <<registry, registry_call>>
vars == <<walk_vars, line_vars, ignore_call, offered, last_offered, registry_vars, config_call>>

None == <<>>
Some(v) == <<v>>

(***************************************************************************)
(* Python str and pathlib operations                                        *)
(***************************************************************************)
\* s.startswith(p)
startswith(s, p) ==
  Len(p) <= Len(s) /\ SubSeq(s, 1, Len(p)) = p

\* s.endswith(p)
endswith(s, p) ==
  Len(p) <= Len(s) /\ SubSeq(s, Len(s) - Len(p) + 1, Len(s)) = p

\* p in s
In(p, s) ==
  \E i \in 0..(Len(s) - Len(p)) : SubSeq(s, i + 1, i + Len(p)) = p

Whitespace == {" ", "\t", "\n", "\r"}

RECURSIVE lstrip(_)
lstrip(s) ==
  IF s # <<>> /\ Head(s) \in Whitespace THEN lstrip(Tail(s)) ELSE s

RECURSIVE rstrip(_)
rstrip(s) ==
  IF s # <<>> /\ s[Len(s)] \in Whitespace THEN rstrip(SubSeq(s, 1, Len(s) - 1)) ELSE s

\* s.strip()
strip(s) ==
  rstrip(lstrip(s))

UpperCase ==
  <<"A", "B", "C", "D", "E", "F", "G", "H", "I", "J", "K", "L", "M", "N", "O", "P", "Q", "R", "S", "T", "U", "V", "W", "X", "Y", "Z">>

LowerCase ==
  <<"a", "b", "c", "d", "e", "f", "g", "h", "i", "j", "k", "l", "m", "n", "o", "p", "q", "r", "s", "t", "u", "v", "w", "x", "y", "z">>

\* s.lower()
lower(s) ==
  [i \in 1..Len(s) |->
     IF \E k \in 1..Len(UpperCase) : UpperCase[k] = s[i]
       THEN LowerCase[CHOOSE k \in 1..Len(UpperCase) : UpperCase[k] = s[i]]
       ELSE s[i]]

\* str.rfind('.') on a file name, 0 when there is no dot (positions from 1)
rfind_dot(name) ==
  IF \E i \in 1..Len(name) : name[i] = "."
    THEN CHOOSE i \in 1..Len(name) : name[i] = "." /\ \A j \in (i + 1)..Len(name) : name[j] # "."
    ELSE 0

\* Path.suffix: the last dot-part of the name, empty for a leading or a trailing dot
suffix(name) ==
  LET i == rfind_dot(name) IN
    IF 1 < i /\ i < Len(name) THEN SubSeq(name, i, Len(name)) ELSE <<>>

\* dict.get(key, default) on a table of <<key, value>> pairs
Get(table, key, default) ==
  IF \E p \in table : p[1] = key THEN (CHOOSE p \in table : p[1] = key)[2] ELSE default

(***************************************************************************)
(* The program's tables                                                     *)
(***************************************************************************)
DEFAULT_IGNORE_PATTERNS ==
  <<
    <<"_", "_", "p", "y", "c", "a", "c", "h", "e", "_", "_">>, <<".", "g", "i", "t">>,
    <<".", "s", "v", "n">>, <<".", "h", "g">>, <<".", "D", "S", "_", "S", "t", "o", "r", "e">>,
    <<"T", "h", "u", "m", "b", "s", ".", "d", "b">>,
    <<"n", "o", "d", "e", "_", "m", "o", "d", "u", "l", "e", "s">>, <<"v", "e", "n", "v">>,
    <<"e", "n", "v">>, <<".", "v", "e", "n", "v">>, <<".", "e", "n", "v">>,
    <<"d", "i", "s", "t">>, <<"b", "u", "i", "l", "d">>, <<"*", ".", "p", "y", "c">>,
    <<"*", ".", "p", "y", "o">>, <<"*", ".", "s", "o">>, <<"*", ".", "d", "l", "l">>,
    <<"*", ".", "e", "x", "e">>, <<"*", ".", "l", "o", "g">>, <<"*", ".", "t", "m", "p">>,
    <<".", "p", "y", "t", "e", "s", "t", "_", "c", "a", "c", "h", "e">>,
    <<".", "c", "o", "v", "e", "r", "a", "g", "e">>, <<".", "t", "o", "x">>,
    <<".", "m", "y", "p", "y", "_", "c", "a", "c", "h", "e">>
  >>

text_file_extensions ==
  {
    <<".", "t", "x", "t">>, <<".", "m", "d">>, <<".", "r", "s", "t">>, <<".", "l", "o", "g">>,
    <<".", "c", "s", "v">>, <<".", "t", "s", "v">>, <<".", "j", "s", "o", "n">>,
    <<".", "x", "m", "l">>, <<".", "y", "a", "m", "l">>, <<".", "y", "m", "l">>,
    <<".", "t", "o", "m", "l">>, <<".", "i", "n", "i">>, <<".", "c", "f", "g">>,
    <<".", "c", "o", "n", "f">>, <<".", "e", "n", "v">>, <<".", "p", "y">>, <<".", "j", "s">>,
    <<".", "t", "s">>, <<".", "j", "s", "x">>, <<".", "t", "s", "x">>,
    <<".", "j", "a", "v", "a">>, <<".", "c", "p", "p">>, <<".", "c">>, <<".", "c", "s">>,
    <<".", "g", "o">>, <<".", "r", "s">>, <<".", "p", "h", "p">>, <<".", "r", "b">>,
    <<".", "s", "w", "i", "f", "t">>, <<".", "k", "t">>, <<".", "s", "c", "a", "l", "a">>,
    <<".", "r">>, <<".", "m">>, <<".", "p", "l">>, <<".", "l", "u", "a">>, <<".", "s", "h">>,
    <<".", "p", "s", "1">>, <<".", "b", "a", "t">>, <<".", "v", "b", "s">>,
    <<".", "s", "q", "l">>, <<".", "h", "s">>, <<".", "m", "l">>, <<".", "f", "9", "0">>,
    <<".", "a", "s", "m">>, <<".", "s">>, <<".", "h", "t", "m", "l">>, <<".", "h", "t", "m">>,
    <<".", "c", "s", "s">>, <<".", "s", "c", "s", "s">>, <<".", "s", "a", "s", "s">>,
    <<".", "l", "e", "s", "s">>, <<".", "s", "v", "g">>
  }

binary_extensions ==
  {
    <<".", "e", "x", "e">>, <<".", "d", "l", "l">>, <<".", "s", "o">>,
    <<".", "d", "y", "l", "i", "b">>, <<".", "p", "y", "c">>, <<".", "p", "y", "o">>,
    <<".", "j", "a", "r">>, <<".", "w", "a", "r">>, <<".", "e", "a", "r">>,
    <<".", "a", "p", "k">>, <<".", "i", "p", "a">>, <<".", "d", "e", "b">>,
    <<".", "r", "p", "m">>, <<".", "t", "a", "r">>, <<".", "g", "z">>, <<".", "z", "i", "p">>,
    <<".", "7", "z">>, <<".", "r", "a", "r">>, <<".", "b", "z", "2">>, <<".", "x", "z">>,
    <<".", "j", "p", "g">>, <<".", "j", "p", "e", "g">>, <<".", "p", "n", "g">>,
    <<".", "g", "i", "f">>, <<".", "b", "m", "p">>, <<".", "t", "i", "f", "f">>,
    <<".", "i", "c", "o">>, <<".", "m", "p", "3">>, <<".", "w", "a", "v">>,
    <<".", "m", "p", "4">>, <<".", "a", "v", "i">>, <<".", "m", "o", "v">>,
    <<".", "p", "d", "f">>, <<".", "d", "o", "c">>, <<".", "d", "o", "c", "x">>,
    <<".", "r", "t", "f">>
  }

_extensions ==
  {
    <<<<".", "p", "y">>, "Python">>, <<<<".", "j", "s">>, "JavaScript">>,
    <<<<".", "t", "s">>, "TypeScript">>, <<<<".", "j", "s", "x">>, "React JSX">>,
    <<<<".", "t", "s", "x">>, "React TSX">>, <<<<".", "j", "a", "v", "a">>, "Java">>,
    <<<<".", "c", "p", "p">>, "C++">>, <<<<".", "c">>, "C">>, <<<<".", "c", "s">>, "C#">>,
    <<<<".", "g", "o">>, "Go">>, <<<<".", "r", "s">>, "Rust">>,
    <<<<".", "p", "h", "p">>, "PHP">>, <<<<".", "r", "b">>, "Ruby">>,
    <<<<".", "s", "w", "i", "f", "t">>, "Swift">>, <<<<".", "k", "t">>, "Kotlin">>,
    <<<<".", "s", "c", "a", "l", "a">>, "Scala">>, <<<<".", "r">>, "R">>,
    <<<<".", "m">>, "Objective-C">>, <<<<".", "p", "l">>, "Perl">>,
    <<<<".", "l", "u", "a">>, "Lua">>, <<<<".", "s", "h">>, "Shell">>,
    <<<<".", "p", "s", "1">>, "PowerShell">>, <<<<".", "b", "a", "t">>, "Batch">>,
    <<<<".", "v", "b", "s">>, "VBScript">>, <<<<".", "s", "q", "l">>, "SQL">>,
    <<<<".", "h", "s">>, "Haskell">>, <<<<".", "m", "l">>, "OCaml">>,
    <<<<".", "f", "9", "0">>, "Fortran">>, <<<<".", "a", "s", "m">>, "Assembly">>,
    <<<<".", "s">>, "Assembly">>, <<<<".", "h", "t", "m", "l">>, "HTML">>,
    <<<<".", "h", "t", "m">>, "HTML">>, <<<<".", "c", "s", "s">>, "CSS">>,
    <<<<".", "s", "c", "s", "s">>, "SCSS">>, <<<<".", "s", "a", "s", "s">>, "SASS">>,
    <<<<".", "l", "e", "s", "s">>, "LESS">>, <<<<".", "x", "m", "l">>, "XML">>,
    <<<<".", "s", "v", "g">>, "SVG">>, <<<<".", "j", "s", "o", "n">>, "JSON">>,
    <<<<".", "y", "a", "m", "l">>, "YAML">>, <<<<".", "y", "m", "l">>, "YAML">>,
    <<<<".", "t", "o", "m", "l">>, "TOML">>, <<<<".", "i", "n", "i">>, "INI">>,
    <<<<".", "c", "f", "g">>, "Config">>, <<<<".", "c", "o", "n", "f">>, "Config">>,
    <<<<".", "e", "n", "v">>, "Environment">>,
    <<<<".", "p", "r", "o", "p", "e", "r", "t", "i", "e", "s">>, "Properties">>,
    <<<<".", "l", "o", "c", "k">>, "Lock File">>, <<<<".", "m", "d">>, "Markdown">>,
    <<<<".", "r", "s", "t">>, "reStructuredText">>, <<<<".", "t", "x", "t">>, "Text">>,
    <<<<".", "p", "d", "f">>, "PDF">>, <<<<".", "d", "o", "c">>, "Word">>,
    <<<<".", "d", "o", "c", "x">>, "Word">>, <<<<".", "r", "t", "f">>, "Rich Text">>
  }

FILE_EXTENSIONS ==
  {
    <<<<".", "p", "y">>, "Python">>, <<<<".", "j", "s">>, "JavaScript">>,
    <<<<".", "t", "s">>, "TypeScript">>, <<<<".", "j", "s", "x">>, "React JSX">>,
    <<<<".", "t", "s", "x">>, "React TSX">>, <<<<".", "j", "a", "v", "a">>, "Java">>,
    <<<<".", "c", "p", "p">>, "C++">>, <<<<".", "c">>, "C">>, <<<<".", "c", "s">>, "C#">>,
    <<<<".", "g", "o">>, "Go">>, <<<<".", "r", "s">>, "Rust">>,
    <<<<".", "p", "h", "p">>, "PHP">>, <<<<".", "r", "b">>, "Ruby">>,
    <<<<".", "s", "w", "i", "f", "t">>, "Swift">>, <<<<".", "k", "t">>, "Kotlin">>,
    <<<<".", "s", "c", "a", "l", "a">>, "Scala">>, <<<<".", "r">>, "R">>,
    <<<<".", "m">>, "Objective-C">>, <<<<".", "p", "l">>, "Perl">>,
    <<<<".", "l", "u", "a">>, "Lua">>, <<<<".", "s", "h">>, "Shell">>,
    <<<<".", "p", "s", "1">>, "PowerShell">>, <<<<".", "b", "a", "t">>, "Batch">>,
    <<<<".", "v", "b", "s">>, "VBScript">>, <<<<".", "s", "q", "l">>, "SQL">>,
    <<<<".", "h", "s">>, "Haskell">>, <<<<".", "m", "l">>, "OCaml">>,
    <<<<".", "f", "9", "0">>, "Fortran">>, <<<<".", "a", "s", "m">>, "Assembly">>,
    <<<<".", "s">>, "Assembly">>, <<<<".", "h", "t", "m", "l">>, "HTML">>,
    <<<<".", "h", "t", "m">>, "HTML">>, <<<<".", "c", "s", "s">>, "CSS">>,
    <<<<".", "s", "c", "s", "s">>, "SCSS">>, <<<<".", "s", "a", "s", "s">>, "SASS">>,
    <<<<".", "l", "e", "s", "s">>, "LESS">>, <<<<".", "x", "m", "l">>, "XML">>,
    <<<<".", "s", "v", "g">>, "SVG">>, <<<<".", "j", "s", "o", "n">>, "JSON">>,
    <<<<".", "y", "a", "m", "l">>, "YAML">>, <<<<".", "y", "m", "l">>, "YAML">>,
    <<<<".", "t", "o", "m", "l">>, "TOML">>, <<<<".", "i", "n", "i">>, "INI">>,
    <<<<".", "c", "f", "g">>, "Config">>, <<<<".", "c", "o", "n", "f">>, "Config">>,
    <<<<".", "e", "n", "v">>, "Environment">>,
    <<<<".", "p", "r", "o", "p", "e", "r", "t", "i", "e", "s">>, "Properties">>,
    <<<<".", "l", "o", "c", "k">>, "Lock File">>, <<<<".", "l", "o", "g">>, "Log">>,
    <<<<".", "m", "d">>, "Markdown">>, <<<<".", "r", "s", "t">>, "reStructuredText">>,
    <<<<".", "t", "x", "t">>, "Text">>, <<<<".", "p", "d", "f">>, "PDF">>,
    <<<<".", "d", "o", "c">>, "Word">>, <<<<".", "d", "o", "c", "x">>, "Word">>,
    <<<<".", "r", "t", "f">>, "Rich Text">>, <<<<".", "p", "y", "c">>, "Python Bytecode">>,
    <<<<".", "p", "y", "o">>, "Python Bytecode">>, <<<<".", "s", "o">>, "Shared Object">>,
    <<<<".", "d", "l", "l">>, "Dynamic Library">>, <<<<".", "e", "x", "e">>, "Executable">>,
    <<<<".", "j", "a", "r">>, "Java Archive">>, <<<<".", "w", "a", "r">>, "Web Archive">>,
    <<<<".", "e", "a", "r">>, "Enterprise Archive">>,
    <<<<".", "a", "p", "k">>, "Android Package">>, <<<<".", "i", "p", "a">>, "iOS Package">>,
    <<<<".", "d", "e", "b">>, "Debian Package">>, <<<<".", "r", "p", "m">>, "RPM Package">>,
    <<<<".", "t", "a", "r">>, "Archive">>, <<<<".", "g", "z">>, "Compressed">>,
    <<<<".", "z", "i", "p">>, "Archive">>, <<<<".", "7", "z">>, "Archive">>,
    <<<<".", "r", "a", "r">>, "Archive">>, <<<<".", "b", "z", "2">>, "Compressed">>,
    <<<<".", "x", "z">>, "Compressed">>, <<<<".", "j", "p", "g">>, "Image">>,
    <<<<".", "j", "p", "e", "g">>, "Image">>, <<<<".", "p", "n", "g">>, "Image">>,
    <<<<".", "g", "i", "f">>, "Image">>, <<<<".", "b", "m", "p">>, "Image">>,
    <<<<".", "t", "i", "f", "f">>, "Image">>, <<<<".", "i", "c", "o">>, "Icon">>,
    <<<<".", "m", "p", "3">>, "Audio">>, <<<<".", "w", "a", "v">>, "Audio">>,
    <<<<".", "m", "p", "4">>, "Video">>, <<<<".", "a", "v", "i">>, "Video">>,
    <<<<".", "m", "o", "v">>, "Video">>, <<<<".", "g", "i", "t">>, "Git Repository">>,
    <<<<".", "g", "i", "t", "i", "g", "n", "o", "r", "e">>, "Git Ignore">>,
    <<<<".", "g", "i", "t", "a", "t", "t", "r", "i", "b", "u", "t", "e", "s">>, "Git Attributes">>,
    <<<<".", "v", "s", "c", "o", "d", "e">>, "VS Code">>,
    <<<<".", "i", "d", "e", "a">>, "IntelliJ IDEA">>,
    <<<<".", "s", "u", "b", "l", "i", "m", "e", "-", "p", "r", "o", "j", "e", "c", "t">>, "Sublime Text">>,
    <<<<".", "v", "i", "m">>, "Vim">>, <<<<".", "e", "m", "a", "c", "s">>, "Emacs">>,
    <<<<".", "s", "w", "p">>, "Vim Swap">>, <<<<".", "s", "w", "o">>, "Vim Swap">>,
    <<<<".", "b", "a", "k">>, "Backup">>, <<<<".", "t", "m", "p">>, "Temporary">>,
    <<<<".", "c", "a", "c", "h", "e">>, "Cache">>, <<<<".", "d", "b">>, "Database">>,
    <<<<".", "s", "q", "l", "i", "t", "e">>, "SQLite Database">>,
    <<<<".", "s", "q", "l", "i", "t", "e", "3">>, "SQLite Database">>
  }

comment_patterns ==
  {
    <<"Python", [single |-> <<"#">>, multi_start |-> <<"\"", "\"", "\"">>, multi_end |-> <<"\"", "\"", "\"">>]>>,
    <<"JavaScript", [single |-> <<"/", "/">>, multi_start |-> <<"/", "*">>, multi_end |-> <<"*", "/">>]>>,
    <<"TypeScript", [single |-> <<"/", "/">>, multi_start |-> <<"/", "*">>, multi_end |-> <<"*", "/">>]>>,
    <<"Java", [single |-> <<"/", "/">>, multi_start |-> <<"/", "*">>, multi_end |-> <<"*", "/">>]>>,
    <<"C++", [single |-> <<"/", "/">>, multi_start |-> <<"/", "*">>, multi_end |-> <<"*", "/">>]>>,
    <<"C", [single |-> <<"/", "/">>, multi_start |-> <<"/", "*">>, multi_end |-> <<"*", "/">>]>>,
    <<"C#", [single |-> <<"/", "/">>, multi_start |-> <<"/", "*">>, multi_end |-> <<"*", "/">>]>>,
    <<"Go", [single |-> <<"/", "/">>, multi_start |-> <<"/", "*">>, multi_end |-> <<"*", "/">>]>>,
    <<"Rust", [single |-> <<"/", "/">>, multi_start |-> <<"/", "*">>, multi_end |-> <<"*", "/">>]>>,
    <<"PHP", [single |-> <<"/", "/">>, multi_start |-> <<"/", "*">>, multi_end |-> <<"*", "/">>]>>,
    <<"Ruby", [single |-> <<"#">>, multi_start |-> <<"=", "b", "e", "g", "i", "n">>, multi_end |-> <<"=", "e", "n", "d">>]>>,
    <<"Swift", [single |-> <<"/", "/">>, multi_start |-> <<"/", "*">>, multi_end |-> <<"*", "/">>]>>,
    <<"Kotlin", [single |-> <<"/", "/">>, multi_start |-> <<"/", "*">>, multi_end |-> <<"*", "/">>]>>,
    <<"Scala", [single |-> <<"/", "/">>, multi_start |-> <<"/", "*">>, multi_end |-> <<"*", "/">>]>>,
    <<"R", [single |-> <<"#">>, multi_start |-> <<>>, multi_end |-> <<>>]>>,
    <<"Objective-C", [single |-> <<"/", "/">>, multi_start |-> <<"/", "*">>, multi_end |-> <<"*", "/">>]>>,
    <<"Perl", [single |-> <<"#">>, multi_start |-> <<"=", "p", "o", "d">>, multi_end |-> <<"=", "c", "u", "t">>]>>,
    <<"Lua", [single |-> <<"-", "-">>, multi_start |-> <<"-", "-", "[", "[">>, multi_end |-> <<"]", "]">>]>>,
    <<"Shell", [single |-> <<"#">>, multi_start |-> <<>>, multi_end |-> <<>>]>>,
    <<"PowerShell", [single |-> <<"#">>, multi_start |-> <<"<", "#">>, multi_end |-> <<"#", ">">>]>>,
    <<"Batch", [single |-> <<"R", "E", "M">>, multi_start |-> <<>>, multi_end |-> <<>>]>>,
    <<"VBScript", [single |-> <<"'">>, multi_start |-> <<>>, multi_end |-> <<>>]>>,
    <<"SQL", [single |-> <<"-", "-">>, multi_start |-> <<"/", "*">>, multi_end |-> <<"*", "/">>]>>,
    <<"Haskell", [single |-> <<"-", "-">>, multi_start |-> <<"{", "-">>, multi_end |-> <<"-", "}">>]>>,
    <<"OCaml", [single |-> <<"(", "*">>, multi_start |-> <<"(", "*">>, multi_end |-> <<"*", ")">>]>>,
    <<"Fortran", [single |-> <<"!">>, multi_start |-> <<>>, multi_end |-> <<>>]>>,
    <<"Assembly", [single |-> <<";">>, multi_start |-> <<>>, multi_end |-> <<>>]>>,
    <<"HTML", [single |-> <<>>, multi_start |-> <<"<", "!", "-", "-">>, multi_end |-> <<"-", "-", ">">>]>>,
    <<"CSS", [single |-> <<>>, multi_start |-> <<"/", "*">>, multi_end |-> <<"*", "/">>]>>,
    <<"SCSS", [single |-> <<"/", "/">>, multi_start |-> <<"/", "*">>, multi_end |-> <<"*", "/">>]>>,
    <<"SASS", [single |-> <<"/", "/">>, multi_start |-> <<"/", "*">>, multi_end |-> <<"*", "/">>]>>,
    <<"LESS", [single |-> <<"/", "/">>, multi_start |-> <<"/", "*">>, multi_end |-> <<"*", "/">>]>>,
    <<"XML", [single |-> <<>>, multi_start |-> <<"<", "!", "-", "-">>, multi_end |-> <<"-", "-", ">">>]>>,
    <<"YAML", [single |-> <<"#">>, multi_start |-> <<>>, multi_end |-> <<>>]>>,
    <<"TOML", [single |-> <<"#">>, multi_start |-> <<>>, multi_end |-> <<>>]>>,
    <<"INI", [single |-> <<";">>, multi_start |-> <<>>, multi_end |-> <<>>]>>,
    <<"JSON", [single |-> <<>>, multi_start |-> <<>>, multi_end |-> <<>>]>>,
    <<"Markdown", [single |-> <<>>, multi_start |-> <<>>, multi_end |-> <<>>]>>,
    <<"reStructuredText", [single |-> <<".", ".">>, multi_start |-> <<>>, multi_end |-> <<>>]>>,
    <<"Text", [single |-> <<>>, multi_start |-> <<>>, multi_end |-> <<>>]>>
  }

line_comment_prefixes ==
  {
    <<"Python", <<<<"#">>>>>>,
    <<"JavaScript", <<<<"/", "/">>, <<"/", "*">>, <<"*", "/">>, <<"*">>>>>>,
    <<"TypeScript", <<<<"/", "/">>, <<"/", "*">>, <<"*", "/">>, <<"*">>>>>>,
    <<"Java", <<<<"/", "/">>, <<"/", "*">>, <<"*", "/">>, <<"*">>>>>>,
    <<"C++", <<<<"/", "/">>, <<"/", "*">>, <<"*", "/">>, <<"*">>>>>>,
    <<"C", <<<<"/", "/">>, <<"/", "*">>, <<"*", "/">>, <<"*">>>>>>,
    <<"C#", <<<<"/", "/">>, <<"/", "*">>, <<"*", "/">>, <<"*">>>>>>,
    <<"Go", <<<<"/", "/">>, <<"/", "*">>, <<"*", "/">>, <<"*">>>>>>,
    <<"Rust", <<<<"/", "/">>, <<"/", "*">>, <<"*", "/">>, <<"*">>>>>>,
    <<"PHP", <<<<"/", "/">>, <<"/", "*">>, <<"*", "/">>, <<"*">>, <<"#">>>>>>,
    <<"Ruby", <<<<"#">>>>>>,
    <<"Shell", <<<<"#">>>>>>,
    <<"CSS", <<<<"/", "*">>, <<"*", "/">>, <<"*">>>>>>,
    <<"HTML", <<<<"<", "!", "-", "-">>, <<"-", "-", ">">>>>>>,
    <<"XML", <<<<"<", "!", "-", "-">>, <<"-", "-", ">">>>>>>,
    <<"SQL", <<<<"-", "-">>, <<"/", "*">>, <<"*", "/">>, <<"*">>>>>>,
    <<"Markdown", <<<<"<", "!", "-", "-">>, <<"-", "-", ">">>>>>>
  }

(***************************************************************************)
(* Bounds of the model                                                      *)
(***************************************************************************)
MaxLines == 4        \* lines fed to the line classifier
MaxPatterns == 2     \* length of the pattern lists given to the ignore matcher
MaxOffers == 23      \* records offered to the largest-files tracker
MaxSize == 3         \* sizes of the records offered to the tracker
MaxRuns == 2         \* analyze() calls on one analyzer
MaxRegistrations == 3 \* register_extension calls on the file-type registry

(***************************************************************************)
(* Ignore matcher                                                           *)
(***************************************************************************)
\* should_ignore_path with the `return False` inside the loop: only the first pattern counts
should_ignore_path_first_pattern_only(path_str, patterns) ==
  IF patterns = <<>> THEN FALSE
  ELSE LET pattern == Head(patterns) IN
    IF startswith(pattern, <<"*">>) THEN endswith(path_str, Tail(pattern))
    ELSE In(pattern, path_str)

\* utils.file_utils.should_ignore_path: the loop over the patterns, first match wins
RECURSIVE should_ignore_path(_, _)
should_ignore_path(path_str, patterns) ==
  IF patterns = <<>> THEN FALSE
  ELSE LET pattern == Head(patterns) IN
    IF startswith(pattern, <<"*">>)
      THEN IF endswith(path_str, Tail(pattern)) THEN TRUE
           ELSE should_ignore_path(path_str, Tail(patterns))
      ELSE IF In(pattern, path_str) THEN TRUE
           ELSE should_ignore_path(path_str, Tail(patterns))

\* Config.should_ignore_file: the same loop over default_ignore_patterns + custom_ignore
RECURSIVE ignore_loop(_, _)
ignore_loop(path_str, patterns) ==
  IF patterns = <<>> THEN FALSE
  ELSE LET pattern == Head(patterns) IN
    IF startswith(pattern, <<"*">>)
      THEN IF endswith(path_str, Tail(pattern)) THEN TRUE
           ELSE ignore_loop(path_str, Tail(patterns))
      ELSE IF In(pattern, path_str) THEN TRUE
           ELSE ignore_loop(path_str, Tail(patterns))

should_ignore_file(path_str, custom_ignore) ==
  ignore_loop(path_str, DEFAULT_IGNORE_PATTERNS \o custom_ignore)

(***************************************************************************)
(* Line classifier                                                          *)
(***************************************************************************)
NoCommentPatterns == [single |-> <<>>, multi_start |-> <<>>, multi_end |-> <<>>]

\* Config.get_comment_patterns_for_file, given the file's type
get_comment_patterns_for_file(file_type) ==
  Get(comment_patterns, file_type, NoCommentPatterns)

LineStart ==
  [in_multiline_comment |-> FALSE, code_lines |-> 0, comment_lines |-> 0,
   blank_lines |-> 0, last |-> "none"]

Count(st, field) ==
  [st EXCEPT ![field] = @ + 1, !.last = field]

\* classify_line without the `continue` after a blank line: the line is counted again
classify_line_blank_falls_through(st, line, cp) ==
  LET stripped == strip(line)
      st1 == IF stripped = <<>> THEN Count(st, "blank_lines") ELSE st
  IN IF cp.multi_start # <<>> /\ In(cp.multi_start, stripped)
       THEN Count([st1 EXCEPT !.in_multiline_comment = TRUE], "comment_lines")
     ELSE IF cp.multi_end # <<>> /\ In(cp.multi_end, stripped)
       THEN Count([st1 EXCEPT !.in_multiline_comment = FALSE], "comment_lines")
     ELSE IF st1.in_multiline_comment THEN Count(st1, "comment_lines")
     ELSE IF cp.single # <<>> /\ startswith(stripped, cp.single)
       THEN Count(st1, "comment_lines")
     ELSE Count(st1, "code_lines")

\* classify_line testing the single-line marker on the line as read, not stripped
classify_line_prefix_unstripped(st, line, cp) ==
  LET stripped == strip(line) IN
    IF stripped = <<>> THEN Count(st, "blank_lines")
    ELSE IF cp.multi_start # <<>> /\ In(cp.multi_start, stripped)
      THEN Count([st EXCEPT !.in_multiline_comment = TRUE], "comment_lines")
    ELSE IF cp.multi_end # <<>> /\ In(cp.multi_end, stripped)
      THEN Count([st EXCEPT !.in_multiline_comment = FALSE], "comment_lines")
    ELSE IF st.in_multiline_comment THEN Count(st, "comment_lines")
    ELSE IF cp.single # <<>> /\ startswith(line, cp.single)
      THEN Count(st, "comment_lines")
    ELSE Count(st, "code_lines")

\* one iteration of the loop of _analyze_line_types (refactored)
classify_line(st, line, cp) ==
  LET stripped == strip(line) IN
    IF stripped = <<>> THEN Count(st, "blank_lines")
    ELSE IF cp.multi_start # <<>> /\ In(cp.multi_start, stripped)
      THEN Count([st EXCEPT !.in_multiline_comment = TRUE], "comment_lines")
    ELSE IF cp.multi_end # <<>> /\ In(cp.multi_end, stripped)
      THEN Count([st EXCEPT !.in_multiline_comment = FALSE], "comment_lines")
    ELSE IF st.in_multiline_comment THEN Count(st, "comment_lines")
    ELSE IF cp.single # <<>> /\ startswith(stripped, cp.single)
      THEN Count(st, "comment_lines")
    ELSE Count(st, "code_lines")

\* _analyze_line_types (refactored): the loop over the file's lines
RECURSIVE _analyze_line_types(_, _, _)
_analyze_line_types(st, lines, cp) ==
  IF lines = <<>> THEN st
  ELSE _analyze_line_types(classify_line(st, Head(lines), cp), Tail(lines), cp)

\* _count_lines (refactored)
_count_lines(lines) ==
  Len(lines)

\* FileAnalyzer._is_comment_line (original): any prefix of the type's list
_is_comment_line(stripped, file_type) ==
  LET patterns == Get(line_comment_prefixes, file_type, <<>>) IN
    \E i \in 1..Len(patterns) : startswith(stripped, patterns[i])

\* one iteration of the read loop of FileAnalyzer.analyze_file (original)
count_line(st, line, file_type) ==
  LET stripped == strip(line) IN
    IF stripped = <<>> THEN Count(st, "blank_lines")
    ELSE IF _is_comment_line(stripped, file_type) THEN Count(st, "comment_lines")
    ELSE Count(st, "code_lines")

RECURSIVE count_lines_original(_, _, _)
count_lines_original(st, lines, file_type) ==
  IF lines = <<>> THEN st
  ELSE count_lines_original(count_line(st, Head(lines), file_type), Tail(lines), file_type)

(***************************************************************************)
(* Largest-files tracker                                                    *)
(***************************************************************************)
KeepDuringAnalysis == 20
KeepOriginal == 10
KeepInResult == 10

\* sort_by_size_desc putting equal sizes in the reverse of the order they had
sort_by_size_desc_ties_reversed(list) ==
  LET before(i) == Cardinality({j \in 1..Len(list) :
                                  \/ list[j].size > list[i].size
                                  \/ list[j].size = list[i].size /\ j > i})
  IN SubSeq([p \in 1..Len(list) |->
               list[CHOOSE i \in 1..Len(list) : before(i) = p - 1]], 1, Len(list))

\* list.sort(key=size, reverse=True): a stable sort, equal sizes keep their order
RECURSIVE sort_by_size_desc(_)
sort_by_size_desc(list) ==
  IF list = <<>> THEN <<>>
  ELSE CHOOSE result \in
         {LET x == list[Len(list)]
              k == Cardinality({i \in 1..Len(sorted) : sorted[i].size >= x.size})
          IN SubSeq(sorted, 1, k) \o <<x>> \o SubSeq(sorted, k + 1, Len(sorted)) :
            sorted \in {sort_by_size_desc(SubSeq(list, 1, Len(list) - 1))}} : TRUE

\* list[:n]
Slice(list, n) ==
  SubSeq(list, 1, IF Len(list) < n THEN Len(list) ELSE n)

\* track_largest_refactored without the pop: nothing is ever evicted
track_largest_never_pops(list, file_info) ==
  sort_by_size_desc(Append(list, file_info))

\* track_largest_refactored making room first: at 20 held it pops, then appends
track_largest_pops_before_append(list, file_info) ==
  LET room == IF Len(list) >= KeepDuringAnalysis THEN SubSeq(list, 1, Len(list) - 1) ELSE list
  IN sort_by_size_desc(Append(room, file_info))

\* refactored: append, sort, pop the last when more than 20 are held
track_largest_refactored(list, file_info) ==
  LET sorted == sort_by_size_desc(Append(list, file_info)) IN
    IF Len(sorted) > KeepDuringAnalysis THEN SubSeq(sorted, 1, Len(sorted) - 1) ELSE sorted

\* original: append, sort, keep the first 10
track_largest_original(list, file_analysis) ==
  Slice(sort_by_size_desc(Append(list, file_analysis)), KeepOriginal)

track_largest(v, list, rec) ==
  IF v = "refactored" THEN track_largest_refactored(list, rec)
  ELSE track_largest_original(list, rec)

ScenarioTree ==
  <<
    [name |-> <<"/", "p">>, parent |-> 0, kind |-> "dir", size |-> 0,
       lines |-> <<>>,
       read_ok |-> TRUE, list_ok |-> TRUE, stat |-> "ok", link |-> FALSE],
    [name |-> <<"a", ".", "p", "y">>, parent |-> 1, kind |-> "file", size |-> 120,
       lines |-> <<<<"#", " ", "a">>, <<"#", " ", "b">>, <<>>, <<"i", "m", "p", "o", "r", "t", " ", "o", "s">>, <<"x", " ", "=", " ", "1">>, <<"y", " ", "=", " ", "2">>, <<"d", "e", "f", " ", "f", "(", ")", ":">>, <<" ", " ", "r", "e", "t", "u", "r", "n", " ", "x">>, <<"z", " ", "=", " ", "f", "(", ")">>, <<"p", "r", "i", "n", "t", "(", "z", ")">>>>,
       read_ok |-> TRUE, list_ok |-> TRUE, stat |-> "ok", link |-> FALSE],
    [name |-> <<"s", "u", "b">>, parent |-> 1, kind |-> "dir", size |-> 0,
       lines |-> <<>>,
       read_ok |-> TRUE, list_ok |-> TRUE, stat |-> "ok", link |-> FALSE],
    [name |-> <<"b", ".", "j", "s">>, parent |-> 3, kind |-> "file", size |-> 60,
       lines |-> <<<<"l", "e", "t", " ", "a", " ", "=", " ", "1", ";">>, <<"l", "e", "t", " ", "b", " ", "=", " ", "2", ";">>, <<"f", "(", "a", ")", ";">>, <<"g", "(", "b", ")", ";">>, <<"h", "(", ")", ";">>>>,
       read_ok |-> TRUE, list_ok |-> TRUE, stat |-> "ok", link |-> FALSE]
  >>

DeepTree ==
  <<
    [name |-> <<"/", "p">>, parent |-> 0, kind |-> "dir", size |-> 0,
       lines |-> <<>>,
       read_ok |-> TRUE, list_ok |-> TRUE, stat |-> "ok", link |-> FALSE],
    [name |-> <<"r", ".", "p", "y">>, parent |-> 1, kind |-> "file", size |-> 30,
       lines |-> <<<<"\"", "\"", "\"">>, <<"d", "o", "c">>, <<"\"", "\"", "\"">>, <<"x", " ", "=", " ", "1">>, <<" ", " ", "#", " ", "c">>, <<>>>>,
       read_ok |-> TRUE, list_ok |-> TRUE, stat |-> "ok", link |-> FALSE],
    [name |-> <<"d", "1">>, parent |-> 1, kind |-> "dir", size |-> 0,
       lines |-> <<>>,
       read_ok |-> TRUE, list_ok |-> TRUE, stat |-> "ok", link |-> FALSE],
    [name |-> <<"m", ".", "j", "s">>, parent |-> 3, kind |-> "file", size |-> 50,
       lines |-> <<<<"/", "/", " ", "c">>, <<"/", "*", " ", "s">>, <<"i", "n">>, <<"e", " ", "*", "/">>, <<"x", ";">>, <<" ">>>>,
       read_ok |-> TRUE, list_ok |-> TRUE, stat |-> "ok", link |-> FALSE],
    [name |-> <<"d", "2">>, parent |-> 3, kind |-> "dir", size |-> 0,
       lines |-> <<>>,
       read_ok |-> TRUE, list_ok |-> TRUE, stat |-> "ok", link |-> FALSE],
    [name |-> <<"d", "e", "e", "p", ".", "p", "y">>, parent |-> 5, kind |-> "file", size |-> 40,
       lines |-> <<<<"#", " ", "a">>, <<"#", " ", "b">>, <<>>, <<"i", "m", "p", "o", "r", "t", " ", "o", "s">>, <<"x", " ", "=", " ", "1">>, <<"y", " ", "=", " ", "2">>, <<"d", "e", "f", " ", "f", "(", ")", ":">>, <<" ", " ", "r", "e", "t", "u", "r", "n", " ", "x">>, <<"z", " ", "=", " ", "f", "(", ")">>, <<"p", "r", "i", "n", "t", "(", "z", ")">>>>,
       read_ok |-> TRUE, list_ok |-> TRUE, stat |-> "ok", link |-> FALSE]
  >>

FilteredTree ==
  <<
    [name |-> <<"/", "p">>, parent |-> 0, kind |-> "dir", size |-> 0,
       lines |-> <<>>,
       read_ok |-> TRUE, list_ok |-> TRUE, stat |-> "ok", link |-> FALSE],
    [name |-> <<".", "g", "i", "t">>, parent |-> 1, kind |-> "dir", size |-> 0,
       lines |-> <<>>,
       read_ok |-> TRUE, list_ok |-> TRUE, stat |-> "ok", link |-> FALSE],
    [name |-> <<"c", "o", "n", "f", "i", "g">>, parent |-> 2, kind |-> "file", size |-> 25,
       lines |-> <<<<"#", " ", "T", "i", "t", "l", "e">>, <<>>, <<"t", "e", "x", "t">>>>,
       read_ok |-> TRUE, list_ok |-> TRUE, stat |-> "ok", link |-> FALSE],
    [name |-> <<"e", "n", "v">>, parent |-> 1, kind |-> "dir", size |-> 0,
       lines |-> <<>>,
       read_ok |-> TRUE, list_ok |-> TRUE, stat |-> "ok", link |-> FALSE],
    [name |-> <<"e", ".", "p", "y">>, parent |-> 4, kind |-> "file", size |-> 35,
       lines |-> <<<<"\"", "\"", "\"">>, <<"d", "o", "c">>, <<"\"", "\"", "\"">>, <<"x", " ", "=", " ", "1">>, <<" ", " ", "#", " ", "c">>, <<>>>>,
       read_ok |-> TRUE, list_ok |-> TRUE, stat |-> "ok", link |-> FALSE],
    [name |-> <<"x", ".", "l", "o", "g">>, parent |-> 1, kind |-> "file", size |-> 15,
       lines |-> <<<<"#", " ", "T", "i", "t", "l", "e">>, <<>>, <<"t", "e", "x", "t">>>>,
       read_ok |-> TRUE, list_ok |-> TRUE, stat |-> "ok", link |-> FALSE],
    [name |-> <<".", "h", ".", "p", "y">>, parent |-> 1, kind |-> "file", size |-> 12,
       lines |-> <<<<"\"", "\"", "\"">>, <<"d", "o", "c">>, <<"\"", "\"", "\"">>, <<"x", " ", "=", " ", "1">>, <<" ", " ", "#", " ", "c">>, <<>>>>,
       read_ok |-> TRUE, list_ok |-> TRUE, stat |-> "ok", link |-> FALSE],
    [name |-> <<"b", "i", "g", ".", "t", "x", "t">>, parent |-> 1, kind |-> "file", size |-> 104857601,
       lines |-> <<<<"#", " ", "T", "i", "t", "l", "e">>, <<>>, <<"t", "e", "x", "t">>>>,
       read_ok |-> TRUE, list_ok |-> TRUE, stat |-> "ok", link |-> FALSE],
    [name |-> <<"o", "k", ".", "m", "d">>, parent |-> 1, kind |-> "file", size |-> 20,
       lines |-> <<<<"#", " ", "T", "i", "t", "l", "e">>, <<>>, <<"t", "e", "x", "t">>>>,
       read_ok |-> TRUE, list_ok |-> TRUE, stat |-> "ok", link |-> FALSE],
    [name |-> <<".", "c", "f", "g">>, parent |-> 1, kind |-> "dir", size |-> 0,
       lines |-> <<>>,
       read_ok |-> TRUE, list_ok |-> TRUE, stat |-> "ok", link |-> FALSE],
    [name |-> <<"k", ".", "p", "y">>, parent |-> 10, kind |-> "file", size |-> 18,
       lines |-> <<<<"#", " ", "a">>, <<"x", " ", "=", " ", "1">>>>,
       read_ok |-> TRUE, list_ok |-> TRUE, stat |-> "ok", link |-> FALSE],
    [name |-> <<"e", "q", ".", "t", "x", "t">>, parent |-> 1, kind |-> "file", size |-> 104857600,
       lines |-> <<<<"t", "e", "x", "t">>, <<>>>>,
       read_ok |-> TRUE, list_ok |-> TRUE, stat |-> "ok", link |-> FALSE]
  >>

KindsTree ==
  <<
    [name |-> <<"/", "p">>, parent |-> 0, kind |-> "dir", size |-> 0,
       lines |-> <<>>,
       read_ok |-> TRUE, list_ok |-> TRUE, stat |-> "ok", link |-> FALSE],
    [name |-> <<"i", "m", "g", ".", "p", "n", "g">>, parent |-> 1, kind |-> "file", size |-> 900,
       lines |-> <<<<"P", "N", "G">>>>,
       read_ok |-> TRUE, list_ok |-> TRUE, stat |-> "ok", link |-> FALSE],
    [name |-> <<"d", ".", "s", "v", "g">>, parent |-> 1, kind |-> "file", size |-> 70,
       lines |-> <<<<"<", "s", "v", "g", ">">>, <<"<", "!", "-", "-", " ", "c", " ", "-", "-", ">">>, <<"<", "/", "s", "v", "g", ">">>>>,
       read_ok |-> TRUE, list_ok |-> TRUE, stat |-> "ok", link |-> FALSE],
    [name |-> <<"R", "E", "A", "D", "M", "E">>, parent |-> 1, kind |-> "file", size |-> 10,
       lines |-> <<<<"#", " ", "T", "i", "t", "l", "e">>, <<>>, <<"t", "e", "x", "t">>>>,
       read_ok |-> TRUE, list_ok |-> TRUE, stat |-> "ok", link |-> FALSE],
    [name |-> <<"A", ".", "P", "Y">>, parent |-> 1, kind |-> "file", size |-> 45,
       lines |-> <<<<"\"", "\"", "\"">>, <<"d", "o", "c">>, <<"\"", "\"", "\"">>, <<"x", " ", "=", " ", "1">>, <<" ", " ", "#", " ", "c">>, <<>>>>,
       read_ok |-> TRUE, list_ok |-> TRUE, stat |-> "ok", link |-> FALSE],
    [name |-> <<"b", "a", "d", ".", "p", "y">>, parent |-> 1, kind |-> "file", size |-> 33,
       lines |-> <<<<"\"", "\"", "\"">>, <<"d", "o", "c">>, <<"\"", "\"", "\"">>, <<"x", " ", "=", " ", "1">>, <<" ", " ", "#", " ", "c">>, <<>>>>,
       read_ok |-> FALSE, list_ok |-> TRUE, stat |-> "ok", link |-> FALSE],
    [name |-> <<"l", "o", "c", "k", "e", "d">>, parent |-> 1, kind |-> "dir", size |-> 0,
       lines |-> <<>>,
       read_ok |-> TRUE, list_ok |-> FALSE, stat |-> "ok", link |-> FALSE],
    [name |-> <<"s", ".", "p", "y">>, parent |-> 7, kind |-> "file", size |-> 22,
       lines |-> <<<<"\"", "\"", "\"">>, <<"d", "o", "c">>, <<"\"", "\"", "\"">>, <<"x", " ", "=", " ", "1">>, <<" ", " ", "#", " ", "c">>, <<>>>>,
       read_ok |-> TRUE, list_ok |-> TRUE, stat |-> "ok", link |-> FALSE]
  >>

\* a tree with entries the operating system refuses: gone.py disappears after is_file()
\* has answered, every stat() of no.py is denied, and lnk is a symbolic link to a directory
FaultyTree ==
  <<
    [name |-> <<"/", "p">>, parent |-> 0, kind |-> "dir", size |-> 0,
       lines |-> <<>>,
       read_ok |-> TRUE, list_ok |-> TRUE, stat |-> "ok", link |-> FALSE],
    [name |-> <<"u">>, parent |-> 1, kind |-> "dir", size |-> 0,
       lines |-> <<>>,
       read_ok |-> TRUE, list_ok |-> TRUE, stat |-> "ok", link |-> FALSE],
    [name |-> <<"a", ".", "p", "y">>, parent |-> 2, kind |-> "file", size |-> 14,
       lines |-> <<<<"#", " ", "a">>, <<"x", " ", "=", " ", "1">>>>,
       read_ok |-> TRUE, list_ok |-> TRUE, stat |-> "ok", link |-> FALSE],
    [name |-> <<"g", "o", "n", "e", ".", "p", "y">>, parent |-> 2, kind |-> "file", size |-> 16,
       lines |-> <<<<"#", " ", "a">>, <<"x", " ", "=", " ", "1">>>>,
       read_ok |-> TRUE, list_ok |-> TRUE, stat |-> "gone", link |-> FALSE],
    [name |-> <<"n", "o", ".", "p", "y">>, parent |-> 2, kind |-> "file", size |-> 18,
       lines |-> <<<<"#", " ", "a">>, <<"x", " ", "=", " ", "1">>>>,
       read_ok |-> TRUE, list_ok |-> TRUE, stat |-> "denied", link |-> FALSE],
    [name |-> <<"z", ".", "p", "y">>, parent |-> 2, kind |-> "file", size |-> 11,
       lines |-> <<<<"#", " ", "a">>, <<"x", " ", "=", " ", "1">>>>,
       read_ok |-> TRUE, list_ok |-> TRUE, stat |-> "ok", link |-> FALSE],
    [name |-> <<"w", ".", "m", "d">>, parent |-> 1, kind |-> "file", size |-> 9,
       lines |-> <<<<"t", "e", "x", "t">>>>,
       read_ok |-> TRUE, list_ok |-> TRUE, stat |-> "ok", link |-> FALSE],
    [name |-> <<"l", "n", "k">>, parent |-> 1, kind |-> "dir", size |-> 0,
       lines |-> <<>>,
       read_ok |-> TRUE, list_ok |-> TRUE, stat |-> "ok", link |-> TRUE],
    [name |-> <<"t", ".", "p", "y">>, parent |-> 8, kind |-> "file", size |-> 13,
       lines |-> <<<<"#", " ", "a">>, <<"x", " ", "=", " ", "1">>>>,
       read_ok |-> TRUE, list_ok |-> TRUE, stat |-> "ok", link |-> FALSE]
  >>

\* a project placed under a directory named build
BuildRootTree ==
  <<
    [name |-> <<"/", "b", "u", "i", "l", "d", "/", "p">>, parent |-> 0, kind |-> "dir", size |-> 0,
       lines |-> <<>>,
       read_ok |-> TRUE, list_ok |-> TRUE, stat |-> "ok", link |-> FALSE],
    [name |-> <<"a", ".", "p", "y">>, parent |-> 1, kind |-> "file", size |-> 14,
       lines |-> <<<<"#", " ", "a">>, <<"x", " ", "=", " ", "1">>>>,
       read_ok |-> TRUE, list_ok |-> TRUE, stat |-> "ok", link |-> FALSE],
    [name |-> <<"s", "u", "b">>, parent |-> 1, kind |-> "dir", size |-> 0,
       lines |-> <<>>,
       read_ok |-> TRUE, list_ok |-> TRUE, stat |-> "ok", link |-> FALSE],
    [name |-> <<"b", ".", "p", "y">>, parent |-> 3, kind |-> "file", size |-> 12,
       lines |-> <<<<"#", " ", "a">>, <<"x", " ", "=", " ", "1">>>>,
       read_ok |-> TRUE, list_ok |-> TRUE, stat |-> "ok", link |-> FALSE]
  >>

Trees == <<ScenarioTree, DeepTree, FilteredTree, KindsTree, FaultyTree, BuildRootTree>>

Nodes == Trees[tree]

Root == 1

FileNodes == {n \in DOMAIN Nodes : Nodes[n].kind = "file"}

DirNodes == {n \in DOMAIN Nodes : Nodes[n].kind = "dir"}

\* str(path): the project path joined with the names below it
RECURSIVE path_of(_)
path_of(n) ==
  IF Nodes[n].parent = 0 THEN Nodes[n].name
  ELSE path_of(Nodes[n].parent) \o <<"/">> \o Nodes[n].name

\* len(directory.relative_to(self.project_path).parts)
RECURSIVE relative_depth(_)
relative_depth(n) ==
  IF Nodes[n].parent = 0 THEN 0 ELSE relative_depth(Nodes[n].parent) + 1

RECURSIVE Ascending(_)
Ascending(S) ==
  IF S = {} THEN <<>>
  ELSE LET m == CHOOSE x \in S : \A y \in S : x <= y IN <<m>> \o Ascending(S \ {m})

Reverse(s) ==
  [i \in 1..Len(s) |-> s[Len(s) + 1 - i]]

\* directory.iterdir(): the entries of a directory, in an order the OS chooses
iterdir(d) ==
  LET entries == Ascending({n \in DOMAIN Nodes : Nodes[n].parent = d}) IN
    IF order = "asc" THEN entries ELSE Reverse(entries)

(***************************************************************************)
(* Python truthiness and `or`                                               *)
(***************************************************************************)
\* bool(x) of an Optional[int]: None and 0 are falsy
Truthy(x) ==
  x # None /\ x[1] # 0

\* a or b, on Optional[int]
Or(a, b) ==
  IF Truthy(a) THEN a ELSE b

\* a or b, on lists: None and [] are falsy (both are <<>> here)
OrList(a, b) ==
  IF a # <<>> THEN a ELSE b

(***************************************************************************)
(* Configuration and data model                                             *)
(***************************************************************************)
DefaultMaxFileSizeMb == 100

\* Config(): the defaults
DefaultConfig ==
  [max_file_size_mb |-> DefaultMaxFileSizeMb, max_depth |-> None, follow_symlinks |-> FALSE,
   include_hidden |-> FALSE, text_file_extensions |-> text_file_extensions,
   binary_extensions |-> binary_extensions]

\* ProjectStats(): all counters zero, all maps empty
ProjectStats ==
  [total_files |-> 0, total_dirs |-> 0, total_lines |-> 0, total_size |-> 0,
   file_types |-> {}, file_sizes |-> {}, lines_by_type |-> {}]

\* d[key] = value on a dict held as a set of <<key, value>> pairs
Put(table, key, value) ==
  {p \in table : p[1] # key} \cup {<<key, value>>}

\* FileInfo(...) / the dict analyze_file returns
FileInfo(n, file_type, st, total) ==
  [path |-> path_of(n), name |-> Nodes[n].name, type |-> file_type, size |-> Nodes[n].size,
   lines |-> total, code_lines |-> st.code_lines, comment_lines |-> st.comment_lines,
   blank_lines |-> st.blank_lines, extension |-> lower(suffix(Nodes[n].name))]

\* FileTypeRegistry.get_file_type on a registry whose _extensions is `extensions`
registry_get_file_type(extensions, file_path) ==
  Get(extensions, lower(suffix(file_path)), "Unknown")

\* register_extension storing the extension as given, without lower()
register_extension_as_given(extensions, extension, file_type) ==
  Put(extensions, extension, file_type)

\* FileTypeRegistry.register_extension: self._extensions[extension.lower()] = file_type
register_extension(extensions, extension, file_type) ==
  Put(extensions, lower(extension), file_type)

\* file_type_registry.get_file_type (refactored), as the analyzer calls it
get_file_type_registry(name) ==
  registry_get_file_type(registry, name)

\* utils.file_utils.get_file_type (original)
get_file_type(name) ==
  Get(FILE_EXTENSIONS, lower(suffix(name)), "Unknown")

\* Config.is_text_file
config_is_text_file(name) ==
  lower(suffix(name)) \in config.text_file_extensions

\* Config.is_binary_file
config_is_binary_file(name) ==
  lower(suffix(name)) \in config.binary_extensions

\* utils.file_utils.is_text_file (original)
is_text_file(name) ==
  lower(suffix(name)) \in text_file_extensions

(***************************************************************************)
(* Per-file analysis                                                        *)
(***************************************************************************)
\* CodebaseAnalyzer._analyze_file (refactored): None when stat() raises, zero counts
\* when the file cannot be opened or read
_analyze_file(n) ==
  LET file_type == get_file_type_registry(Nodes[n].name)
      cp == get_comment_patterns_for_file(file_type)
      read == config_is_text_file(Nodes[n].name) /\ Nodes[n].read_ok
      st == IF read THEN _analyze_line_types(LineStart, Nodes[n].lines, cp) ELSE LineStart
      total == IF read THEN _count_lines(Nodes[n].lines) ELSE 0
  IN IF Nodes[n].stat # "ok" THEN None ELSE Some(FileInfo(n, file_type, st, total))

\* FileAnalyzer.analyze_file (original)
analyze_file(n) ==
  LET file_type == get_file_type(Nodes[n].name)
      read == is_text_file(Nodes[n].name) /\ Nodes[n].read_ok
      st == IF read THEN count_lines_original(LineStart, Nodes[n].lines, file_type) ELSE LineStart
      total == IF read THEN Len(Nodes[n].lines) ELSE 0
  IN IF Nodes[n].stat # "ok" THEN None ELSE Some(FileInfo(n, file_type, st, total))

\* _should_ignore_file that compares the size with >= instead of >
_should_ignore_file_at_limit(n) ==
  \/ should_ignore_file(path_of(n), ignore_patterns)
  \/ Nodes[n].stat # "ok"
  \/ Nodes[n].size >= config.max_file_size_mb * 1024 * 1024

\* _should_ignore_file without the size limit
_should_ignore_file_patterns_only(n) ==
  should_ignore_file(path_of(n), ignore_patterns)

\* CodebaseAnalyzer._should_ignore_file (refactored): ignore patterns, then the size
\* limit; a stat() that raises makes the file ignored
_should_ignore_file(n) ==
  \/ should_ignore_file(path_of(n), ignore_patterns)
  \/ Nodes[n].stat # "ok"
  \/ Nodes[n].size > config.max_file_size_mb * 1024 * 1024

\* _should_skip_directory that leaves the root out of the ignore check
_should_skip_directory_below_root(d) ==
  \/ max_depth # None /\ relative_depth(d) > max_depth[1]
  \/ d # Root /\ should_ignore_file(path_of(d), ignore_patterns)

\* CodebaseAnalyzer._should_skip_directory (refactored): depth limit, then ignore patterns
_should_skip_directory(d) ==
  \/ max_depth # None /\ relative_depth(d) > max_depth[1]
  \/ should_ignore_file(path_of(d), ignore_patterns)

(***************************************************************************)
(* Aggregation                                                              *)
(***************************************************************************)
\* add_file_to_stats without the file_sizes update
add_file_to_stats_without_sizes(st, file_info) ==
  [st EXCEPT !.total_files = @ + 1,
             !.total_size = @ + file_info.size,
             !.total_lines = @ + file_info.lines,
             !.file_types = Put(@, file_info.type, Get(@, file_info.type, 0) + 1),
             !.lines_by_type = Put(@, file_info.type, Get(@, file_info.type, 0) + file_info.lines)]

\* refactored _analyze_directory: the fold of one FileInfo into ProjectStats
add_file_to_stats(st, file_info) ==
  [st EXCEPT !.total_files = @ + 1,
             !.total_size = @ + file_info.size,
             !.total_lines = @ + file_info.lines,
             !.file_types = Put(@, file_info.type, Get(@, file_info.type, 0) + 1),
             !.file_sizes = Put(@, file_info.type, Get(@, file_info.type, 0) + file_info.size),
             !.lines_by_type = Put(@, file_info.type, Get(@, file_info.type, 0) + file_info.lines)]

\* original CodebaseAnalyzer._update_stats: the counters and the defaultdict maps
_update_stats(st, file_analysis) ==
  [st EXCEPT !.total_files = @ + 1,
             !.total_size = @ + file_analysis.size,
             !.total_lines = @ + file_analysis.lines,
             !.file_types = Put(@, file_analysis.type, Get(@, file_analysis.type, 0) + 1),
             !.file_sizes = Put(@, file_analysis.type, Get(@, file_analysis.type, 0) + file_analysis.size),
             !.lines_by_type = Put(@, file_analysis.type, Get(@, file_analysis.type, 0) + file_analysis.lines)]

\* sorted(files, key=size, reverse=True): each record goes behind the larger ones and
\* behind the equally large ones that come before it in the list
sorted_by_size_reverse(list) ==
  LET before(i) == Cardinality({j \in 1..Len(list) :
                                  \/ list[j].size > list[i].size
                                  \/ list[j].size = list[i].size /\ j < i})
  IN SubSeq([p \in 1..Len(list) |->
               list[CHOOSE i \in 1..Len(list) : before(i) = p - 1]], 1, Len(list))

\* AnalysisResult.get_largest_files(limit)
get_largest_files(result, limit) ==
  Slice(sorted_by_size_reverse(result.files), limit)

\* AnalysisResult(stats=stats, files=files, largest_files=largest_files[:10])
AnalysisResult(st, file_list, largest) ==
  [stats |-> st, files |-> file_list, largest_files |-> Slice(largest, KeepInResult)]

(***************************************************************************)
(* Directory walk                                                           *)
(***************************************************************************)
\* the sum of f[x] over the x of S
RECURSIVE SumOver(_, _)
SumOver(S, f) ==
  IF S = {} THEN 0
  ELSE LET x == CHOOSE y \in S : TRUE IN f[x] + SumOver(S \ {x}, f)

\* AnalysisProgress(): nothing counted, nothing processed
AnalysisProgress ==
  [total_items |-> 0, processed_items |-> 0, current_file |-> None]

\* _should_ignore_file as _count_items calls it, before the walk starts: a file that
\* disappears during the walk is still there
_should_ignore_file_while_counting(n) ==
  \/ should_ignore_file(path_of(n), ignore_patterns)
  \/ Nodes[n].stat = "denied"
  \/ Nodes[n].size > config.max_file_size_mb * 1024 * 1024

\* the part of _count_items that os.walk(self.project_path) yields for one directory and
\* the directories below it: os.walk does not descend into a symbolic link to a
\* directory, treats an entry whose is_dir() fails as a file and yields nothing for a
\* directory it cannot scan
RECURSIVE count_items_in(_)
count_items_in(d) ==
  IF ~Nodes[d].list_ok \/ _should_skip_directory(d) THEN 0
  ELSE LET entries == {n \in DOMAIN Nodes : Nodes[n].parent = d}
           nondirs == {n \in entries : Nodes[n].kind = "file" \/ Nodes[n].stat = "denied"}
           walked == {n \in entries \ nondirs : ~Nodes[n].link}
           counted == {n \in nondirs : ~_should_ignore_file_while_counting(n)}
       IN Cardinality(counted)
            + SumOver(walked, [n \in walked |-> count_items_in(n)])

\* CodebaseAnalyzer._count_items
_count_items ==
  count_items_in(Root)

\* no export_result/generate_report/display_report call has been made
NoReport ==
  [fn |-> "none", raised |-> "none", used |-> None]

Frame(d, depth) ==
  [directory |-> d, todo |-> iterdir(d), depth |-> depth]

\* refactored _analyze_directory up to its loop: skip check, then iterdir(), whose
\* PermissionError/OSError the call catches
enter_directory_refactored(d, depth) ==
  IF _should_skip_directory(d) THEN <<>>
  ELSE IF ~Nodes[d].list_ok THEN <<>>
  ELSE <<Frame(d, depth)>>

\* enter_directory_original comparing the depth with max_depth + 1
enter_directory_original_one_deeper(d, depth) ==
  IF Truthy(max_depth) /\ depth > max_depth[1] + 1 THEN <<>>
  ELSE IF should_ignore_path(path_of(d), ignore_patterns) THEN <<>>
  ELSE IF ~Nodes[d].list_ok THEN <<>>
  ELSE <<Frame(d, depth)>>

\* original _analyze_directory up to its loop
enter_directory_original(d, depth) ==
  IF Truthy(max_depth) /\ depth > max_depth[1] THEN <<>>
  ELSE IF should_ignore_path(path_of(d), ignore_patterns) THEN <<>>
  ELSE IF ~Nodes[d].list_ok THEN <<>>
  ELSE <<Frame(d, depth)>>

\* descend_refactored without the `max_depth is None` alternative
descend_only_with_limit(item, depth) ==
  IF max_depth # None /\ depth < max_depth[1]
    THEN enter_directory_refactored(item, depth + 1)
    ELSE <<>>

\* the refactored recursion guard: max_depth is None or depth < max_depth
descend_refactored(item, depth) ==
  IF max_depth = None \/ depth < max_depth[1]
    THEN enter_directory_refactored(item, depth + 1)
    ELSE <<>>

\* skips_entry with the hidden test applied to files only
skips_entry_hidden_files_only(item) ==
  IF version = "refactored"
    THEN /\ ~config.include_hidden /\ startswith(Nodes[item].name, <<".">>)
         /\ Nodes[item].kind = "file"
    ELSE should_ignore_path(path_of(item), ignore_patterns)

\* the `continue` at the top of the loop body: hidden entries (refactored),
\* entries matching an ignore pattern (original)
skips_entry(item) ==
  IF version = "refactored"
    THEN ~config.include_hidden /\ startswith(Nodes[item].name, <<".">>)
    ELSE should_ignore_path(path_of(item), ignore_patterns)

\* what the loop body gets for a file: None when the file is not folded in
file_record(item) ==
  IF version = "refactored"
    THEN IF _should_ignore_file(item) THEN None ELSE _analyze_file(item)
    ELSE analyze_file(item)

\* file_record for every file of the tree, as pairs <<file, record>>: the walk of one
\* analyze() call reads its records from this table, which depends on nothing that
\* changes during the call
FileRecords ==
  {<<n, file_record(n)>> : n \in FileNodes}

Walking ==
  pc = "walking" /\ stack # <<>> /\ Head(stack).todo # <<>>

\* item.is_file() of pathlib (Python 3.8 to 3.13, the versions setup.py names): an error
\* of stat() other than ENOENT, ENOTDIR, EBADF and ELOOP is raised to the caller
is_file_raises(item) ==
  Nodes[item].stat = "denied"

Advance(sub) ==
  stack' = sub \o <<[Head(stack) EXCEPT !.todo = Tail(@)]>> \o Tail(stack)

\* analyze() that initialises its result before it checks that the path exists
AnalyzeNotFoundAfterReset ==
  /\ pc = "idle" /\ runs < MaxRuns /\ ~root_exists
  /\ runs' = runs + 1
  /\ outcome' = "FileNotFoundError"
  /\ visited' = {}
  /\ _result' = None
  /\ stats' = ProjectStats /\ files' = <<>> /\ largest_files' = <<>>
  /\ UNCHANGED <<version, tree, order, root_exists, config, given, ignore_patterns, max_depth,
                 file_records,
                 pc, stack>>
  /\ UNCHANGED <<successes, report, returned, progress, log>>
  /\ UNCHANGED <<line_vars, ignore_call, offered, last_offered, registry_vars, config_call>>

\* analyze() on a path that does not exist
AnalyzeNotFound ==
  /\ pc = "idle" /\ runs < MaxRuns /\ ~root_exists
  /\ runs' = runs + 1
  /\ outcome' = "FileNotFoundError"
  /\ visited' = {}
  /\ UNCHANGED <<version, tree, order, root_exists, config, given, ignore_patterns, max_depth,
                 file_records,
                 pc, stack, stats, files, largest_files, _result>>
  /\ UNCHANGED <<successes, report, returned, progress, log>>
  /\ UNCHANGED <<line_vars, ignore_call, offered, last_offered, registry_vars, config_call>>

\* analyze() up to the first directory listing
AnalyzeBegin ==
  /\ pc = "idle" /\ runs < MaxRuns /\ root_exists
  /\ runs' = runs + 1
  /\ pc' = "walking"
  /\ outcome' = "running"
  /\ visited' = {Root}
  /\ IF version = "refactored"
       THEN /\ stats' = ProjectStats
            /\ files' = <<>>
            /\ largest_files' = <<>>
            /\ stack' = enter_directory_refactored(Root, 0)
       ELSE /\ UNCHANGED <<stats, files, largest_files>>
            /\ stack' = enter_directory_original(Root, 0)
  /\ file_records' = FileRecords
  /\ UNCHANGED <<version, tree, order, root_exists, config, given, ignore_patterns, max_depth,
                 _result>>
  /\ report' = NoReport
  /\ progress' = IF version = "refactored"
                   THEN [progress EXCEPT !.total_items = _count_items]
                   ELSE progress
  /\ log' = IF stack' # <<>> THEN <<<<"list", Root>>>> ELSE <<>>
  /\ UNCHANGED <<successes, returned>>
  /\ UNCHANGED <<line_vars, ignore_call, offered, last_offered, registry_vars, config_call>>

\* one loop iteration that ends in `continue` before is_file()
SkipEntry ==
  /\ Walking
  /\ LET item == Head(Head(stack).todo) IN
       /\ skips_entry(item)
       /\ visited' = visited \cup {item}
  /\ Advance(<<>>)
  /\ UNCHANGED <<version, tree, order, root_exists, config, given, ignore_patterns, max_depth,
                 file_records,
                 pc, stats, files, largest_files, _result, outcome, runs>>
  /\ UNCHANGED <<successes, report, returned, progress, log>>
  /\ UNCHANGED <<line_vars, ignore_call, offered, last_offered, registry_vars, config_call>>

\* one loop iteration on a file: analyse it, fold it in, track the largest
VisitFile ==
  /\ Walking
  /\ LET item == Head(Head(stack).todo)
         info == Get(file_records, item, None)
     IN /\ Nodes[item].kind = "file"
        /\ ~skips_entry(item)
        /\ ~is_file_raises(item)
        /\ visited' = visited \cup {item}
        /\ IF info # None
             THEN /\ files' = Append(files, info[1])
                  /\ stats' = IF version = "refactored"
                                THEN add_file_to_stats(stats, info[1])
                                ELSE _update_stats(stats, info[1])
                  /\ largest_files' = track_largest(version, largest_files, info[1])
             ELSE UNCHANGED <<files, stats, largest_files>>
        /\ progress' = IF version = "refactored" /\ info # None
                         THEN [progress EXCEPT !.processed_items = @ + 1,
                                               !.current_file = Some(path_of(item))]
                         ELSE progress
        /\ log' = IF info # None THEN Append(log, <<"file", item>>) ELSE log
  /\ Advance(<<>>)
  /\ UNCHANGED <<version, tree, order, root_exists, config, given, ignore_patterns, max_depth,
                 file_records,
                 pc, _result, outcome, runs>>
  /\ UNCHANGED <<successes, report, returned>>
  /\ UNCHANGED <<line_vars, ignore_call, offered, last_offered, registry_vars, config_call>>

\* one loop iteration on a directory: count it, then the recursive call up to its listing
VisitDirectory ==
  /\ Walking
  /\ LET item == Head(Head(stack).todo)
         depth == Head(stack).depth
     IN /\ Nodes[item].kind = "dir"
        /\ ~skips_entry(item)
        /\ ~is_file_raises(item)
        /\ visited' = visited \cup {item}
        /\ stats' = [stats EXCEPT !.total_dirs = @ + 1]
        /\ LET sub == IF version = "refactored"
                        THEN descend_refactored(item, depth)
                        ELSE enter_directory_original(item, depth + 1)
           IN /\ Advance(sub)
              /\ log' = IF sub # <<>> THEN Append(log, <<"list", item>>) ELSE log
  /\ UNCHANGED <<version, tree, order, root_exists, config, given, ignore_patterns, max_depth,
                 file_records,
                 pc, files, largest_files, _result, outcome, runs>>
  /\ UNCHANGED <<successes, report, returned, progress>>
  /\ UNCHANGED <<line_vars, ignore_call, offered, last_offered, registry_vars, config_call>>

\* IterationFails with the error leaving every active _analyze_directory call
IterationFailsAbortsWalk ==
  /\ Walking
  /\ LET item == Head(Head(stack).todo) IN
       /\ ~skips_entry(item)
       /\ is_file_raises(item)
       /\ visited' = visited \cup {item}
  /\ stack' = <<>>
  /\ UNCHANGED <<version, tree, order, root_exists, config, given, ignore_patterns, max_depth,
                 file_records,
                 pc, stats, files, largest_files, _result, outcome, runs>>
  /\ UNCHANGED <<successes, report, returned, progress, log>>
  /\ UNCHANGED <<line_vars, ignore_call, offered, last_offered, registry_vars, config_call>>

\* one loop iteration in which item.is_file() raises: the except clause around the loop
\* catches the error and the _analyze_directory call returns, its remaining entries unread
IterationFails ==
  /\ Walking
  /\ LET item == Head(Head(stack).todo) IN
       /\ ~skips_entry(item)
       /\ is_file_raises(item)
       /\ visited' = visited \cup {item}
  /\ stack' = Tail(stack)
  /\ UNCHANGED <<version, tree, order, root_exists, config, given, ignore_patterns, max_depth,
                 file_records,
                 pc, stats, files, largest_files, _result, outcome, runs>>
  /\ UNCHANGED <<successes, report, returned, progress, log>>
  /\ UNCHANGED <<line_vars, ignore_call, offered, last_offered, registry_vars, config_call>>

\* ReturnFromDirectory that never leaves the exhausted loop
ReturnFromDirectoryStays ==
  /\ pc = "walking" /\ stack # <<>> /\ Head(stack).todo = <<>>
  /\ UNCHANGED vars

\* the loop of one _analyze_directory call is exhausted: the call returns
ReturnFromDirectory ==
  /\ pc = "walking" /\ stack # <<>> /\ Head(stack).todo = <<>>
  /\ stack' = Tail(stack)
  /\ UNCHANGED <<version, tree, order, root_exists, config, given, ignore_patterns, max_depth,
                 file_records,
                 pc, stats, files, largest_files, _result, outcome, visited, runs>>
  /\ UNCHANGED <<successes, report, returned, progress, log>>
  /\ UNCHANGED <<line_vars, ignore_call, offered, last_offered, registry_vars, config_call>>

\* the statistics analyze() hands to its caller: the refactored analyzer returns an
\* AnalysisResult around the ProjectStats object of this call, the original returns the
\* dictionary self.stats itself
returned_value ==
  [is_self_stats |-> version = "original", stats |-> stats]

\* analyze() after the walk: the refactored analyzer stores and returns an
\* AnalysisResult, the original returns self.stats
AnalyzeReturn ==
  /\ pc = "walking" /\ stack = <<>>
  /\ pc' = "idle"
  /\ outcome' = "returned"
  /\ _result' = IF version = "refactored"
                  THEN Some(AnalysisResult(stats, files, largest_files))
                  ELSE _result
  /\ UNCHANGED <<version, tree, order, root_exists, config, given, ignore_patterns, max_depth,
                 file_records,
                 stack, stats, files, largest_files, visited, runs>>
  /\ successes' = successes + 1
  /\ returned' = Append(returned, returned_value)
  /\ UNCHANGED <<report, progress, log>>
  /\ UNCHANGED <<line_vars, ignore_call, offered, last_offered, registry_vars, config_call>>

\* the formats some registered exporter supports: JSONExporter and CSVExporter register
\* themselves, TextExporter does not
supported_formats == {"json", "csv"}

\* the format_type arguments export_result is called with
SampleFormats == {"json", "txt"}

\* export_result(format_type, output_path): the result check, then the exporter lookup,
\* then exporter.export(self._result, output_path)
ExportResult ==
  /\ pc = "idle" /\ version = "refactored"
  /\ \E format_type \in SampleFormats :
       report' = IF _result = None
                   THEN [fn |-> "export_result", raised |-> "RuntimeError", used |-> None]
                 ELSE IF format_type \notin supported_formats
                   THEN [fn |-> "export_result", raised |-> "ValueError", used |-> None]
                 ELSE [fn |-> "export_result", raised |-> "none", used |-> _result]
  /\ UNCHANGED <<version, tree, order, root_exists, config, given, ignore_patterns, max_depth,
                 file_records,
                 pc, stack, stats, files, largest_files, _result, outcome, visited, runs,
                 successes, returned, progress, log>>
  /\ UNCHANGED <<line_vars, ignore_call, offered, last_offered, registry_vars, config_call>>

\* generate_report that hands self._result to the reporter without testing it
GenerateReportUnchecked ==
  /\ pc = "idle" /\ version = "refactored"
  /\ report' = [fn |-> "generate_report", raised |-> "none", used |-> _result]
  /\ UNCHANGED <<version, tree, order, root_exists, config, given, ignore_patterns, max_depth,
                 file_records,
                 pc, stack, stats, files, largest_files, _result, outcome, visited, runs,
                 successes, returned, progress, log>>
  /\ UNCHANGED <<line_vars, ignore_call, offered, last_offered, registry_vars, config_call>>

\* generate_report(detailed): the result check, then reporter.generate_report(self._result)
GenerateReport ==
  /\ pc = "idle" /\ version = "refactored"
  /\ report' = IF _result = None
                 THEN [fn |-> "generate_report", raised |-> "RuntimeError", used |-> None]
                 ELSE [fn |-> "generate_report", raised |-> "none", used |-> _result]
  /\ UNCHANGED <<version, tree, order, root_exists, config, given, ignore_patterns, max_depth,
                 file_records,
                 pc, stack, stats, files, largest_files, _result, outcome, visited, runs,
                 successes, returned, progress, log>>
  /\ UNCHANGED <<line_vars, ignore_call, offered, last_offered, registry_vars, config_call>>

\* display_report(detailed): the result check, then reporter.display_report(self._result)
DisplayReport ==
  /\ pc = "idle" /\ version = "refactored"
  /\ report' = IF _result = None
                 THEN [fn |-> "display_report", raised |-> "RuntimeError", used |-> None]
                 ELSE [fn |-> "display_report", raised |-> "none", used |-> _result]
  /\ UNCHANGED <<version, tree, order, root_exists, config, given, ignore_patterns, max_depth,
                 file_records,
                 pc, stack, stats, files, largest_files, _result, outcome, visited, runs,
                 successes, returned, progress, log>>
  /\ UNCHANGED <<line_vars, ignore_call, offered, last_offered, registry_vars, config_call>>

\* the environment removes or creates the project path between two calls
ToggleRoot ==
  /\ pc = "idle" /\ runs < MaxRuns
  /\ root_exists' = ~root_exists
  /\ UNCHANGED <<version, tree, order, config, given, ignore_patterns, max_depth,
                 file_records,
                 pc, stack, stats, files, largest_files, _result, outcome, visited, runs>>
  /\ UNCHANGED <<successes, report, returned, progress, log>>
  /\ UNCHANGED <<line_vars, ignore_call, offered, last_offered, registry_vars, config_call>>

(***************************************************************************)
(* Construction                                                             *)
(***************************************************************************)
SvgExt == <<".", "s", "v", "g">>

JsPattern == <<"*", ".", "j", "s">>

\* the Config objects handed to the refactored analyzer
Configs ==
  {[DefaultConfig EXCEPT !.max_depth = d, !.include_hidden = h, !.binary_extensions = b] :
     d \in {None, Some(0), Some(1)}, h \in BOOLEAN,
     b \in {binary_extensions, binary_extensions \cup {SvgExt}}}

\* the ignore_patterns and max_depth arguments of CodebaseAnalyzer(...)
Arguments ==
  {[ignore_patterns |-> i, max_depth |-> d] :
     i \in {<<>>, <<JsPattern>>}, d \in {None, Some(0), Some(1)}}

\* no Config has been constructed or assigned to beyond the one in use
NoConfigCall ==
  [op |-> "none", field |-> "none", value |-> None, raised |-> "none"]

\* no register_extension call has been made
NoRegistryCall ==
  [n |-> 0, extension |-> <<>>, file_type |-> "none"]

\* FileTypeRegistry.__init__: the defaults are loaded
IdleRegistry ==
  /\ registry = _extensions
  /\ registry_call = NoRegistryCall

IdleLines ==
  /\ content = <<>>
  /\ comment_patterns_in_use = NoCommentPatterns
  /\ line_state = LineStart

IdleWalk ==
  /\ version = "refactored" /\ tree = 1 /\ order = "asc" /\ root_exists = TRUE
  /\ config = DefaultConfig /\ given = [ignore_patterns |-> <<>>, max_depth |-> None]
  /\ ignore_patterns = <<>> /\ max_depth = None
  /\ pc = "idle" /\ stack = <<>> /\ stats = ProjectStats /\ files = <<>>
  /\ largest_files = <<>> /\ _result = None /\ outcome = "none" /\ visited = {} /\ runs = 0
  /\ successes = 0 /\ report = NoReport /\ returned = <<>>
  /\ progress = AnalysisProgress /\ log = <<>>

\* CodebaseAnalyzer.__init__ of either package
Init ==
  /\ version \in {"refactored", "original"}
  /\ tree \in 1..Len(Trees)
  /\ order \in {"asc", "desc"}
  /\ root_exists \in BOOLEAN
  /\ given \in Arguments
  /\ config \in IF version = "refactored" THEN Configs ELSE {DefaultConfig}
  /\ ignore_patterns = IF version = "refactored"
                         THEN OrList(given.ignore_patterns, <<>>)
                         ELSE OrList(given.ignore_patterns, DEFAULT_IGNORE_PATTERNS)
  /\ max_depth = IF version = "refactored"
                   THEN Or(given.max_depth, config.max_depth)
                   ELSE given.max_depth
  /\ pc = "idle" /\ stack = <<>>
  /\ stats = ProjectStats /\ files = <<>> /\ largest_files = <<>>
  /\ _result = None /\ outcome = "none" /\ visited = {} /\ runs = 0
  /\ successes = 0 /\ report = NoReport /\ returned = <<>>
  /\ progress = AnalysisProgress /\ log = <<>>
  /\ IdleLines
  /\ ignore_call = [fn |-> "none", path |-> <<>>, patterns |-> <<>>, result |-> FALSE]
  /\ offered = 0 /\ last_offered = None
  /\ IdleRegistry
  /\ config_call = NoConfigCall
  /\ file_records = {}

Next ==
  \/ AnalyzeNotFound
  \/ AnalyzeBegin
  \/ SkipEntry
  \/ VisitFile
  \/ VisitDirectory
  \/ IterationFails
  \/ ReturnFromDirectory
  \/ AnalyzeReturn
  \/ ToggleRoot
  \/ ExportResult
  \/ GenerateReport
  \/ DisplayReport

Spec == Init /\ [][Next]_vars

\* the steps analyze() takes by itself once it has been called
WalkStep ==
  \/ SkipEntry
  \/ VisitFile
  \/ VisitDirectory
  \/ IterationFails
  \/ ReturnFromDirectory
  \/ AnalyzeReturn

\* analyze() is called on an existing path and runs to its end
NextWalk ==
  \/ AnalyzeBegin
  \/ SkipEntry
  \/ VisitFile
  \/ VisitDirectory
  \/ IterationFails
  \/ ReturnFromDirectory
  \/ AnalyzeReturn

\* an analyzer on an existing path, with the default extension sets, about to be asked
\* for the one analyze() call that is followed to its end
InitWalk ==
  /\ Init
  /\ root_exists
  /\ config.binary_extensions = binary_extensions

\* analyze() is sequential code: a call that has started keeps taking its next step
SpecWalk == InitWalk /\ [][NextWalk]_vars /\ WF_vars(WalkStep)

(***************************************************************************)
(* The line classifier on its own: _analyze_line_types fed line by line     *)
(***************************************************************************)
ShellPatterns == get_comment_patterns_for_file("Shell")

JsonPatterns == get_comment_patterns_for_file("JSON")

CPatterns == get_comment_patterns_for_file("C")

PythonPatterns == get_comment_patterns_for_file("Python")

SamplePatterns ==
  {ShellPatterns, JsonPatterns, CPatterns, PythonPatterns}

EmptyLine == <<>>

HashComment == <<"#", " ", "c", "o", "m", "m", "e", "n", "t">>

Assignment == <<"x", " ", "=", " ", "1">>

SlashStarStart == <<"/", "*", " ", "s", "t", "a", "r", "t">>

StillInComment == <<"s", "t", "i", "l", "l", " ", "i", "n", " ", "c", "o", "m", "m", "e", "n", "t">>

EndStarSlash == <<"e", "n", "d", " ", "*", "/">>

IntX == <<"i", "n", "t", " ", "x", ";">>

OneLineComment == <<"/", "*", " ", "c", " ", "*", "/">>

\* the lines a file of each kind is made of
SampleLines(cp) ==
  IF cp = ShellPatterns
    THEN {EmptyLine, <<" ", " ">>, HashComment, Assignment, <<" ", " ", "#", " ", "c">>,
          <<"x", " ", "#", " ", "y">>, SlashStarStart}
  ELSE IF cp = JsonPatterns
    THEN {EmptyLine, <<" ", "\t">>, HashComment, Assignment, SlashStarStart, EndStarSlash}
  ELSE IF cp = CPatterns
    THEN {EmptyLine, SlashStarStart, StillInComment, EndStarSlash, IntX, OneLineComment,
          <<"/", "/", " ", "c">>}
  ELSE {EmptyLine, <<"\"", "\"", "\"">>, <<"d", "o", "c">>, HashComment, Assignment,
        <<"\"", "\"", "\"", "d", "\"", "\"", "\"">>}

InitLines ==
  /\ IdleWalk
  /\ content = <<>>
  /\ comment_patterns_in_use \in SamplePatterns
  /\ line_state = LineStart
  /\ ignore_call = [fn |-> "none", path |-> <<>>, patterns |-> <<>>, result |-> FALSE]
  /\ offered = 0 /\ last_offered = None
  /\ IdleRegistry
  /\ config_call = NoConfigCall
  /\ file_records = {}

\* the loop of _analyze_line_types reads one more line of the file
ReadLine ==
  /\ Len(content) < MaxLines
  /\ \E line \in SampleLines(comment_patterns_in_use) :
       /\ content' = Append(content, line)
       /\ line_state' = classify_line(line_state, line, comment_patterns_in_use)
  /\ UNCHANGED <<walk_vars, comment_patterns_in_use, ignore_call, offered, last_offered, registry_vars, config_call>>

NextLines ==
  ReadLine

SpecLines == InitLines /\ [][NextLines]_vars

(***************************************************************************)
(* The ignore matcher on its own                                            *)
(***************************************************************************)
SamplePaths ==
  { <<"/", "a", "/", "b", "/", "a", "p", "p", ".", "l", "o", "g">>,
    <<"/", "a", "/", "b", "/", "l", "o", "g", ".", "t", "x", "t">>,
    <<"/", "a", "/", "n", "o", "d", "e", "_", "m", "o", "d", "u", "l", "e", "s", "/", "x", ".", "j", "s">>,
    <<"/", "a", "/", "m", ".", "p", "y">> }

SampleIgnorePatterns ==
  { <<"*", ".", "l", "o", "g">>,
    <<"n", "o", "d", "e", "_", "m", "o", "d", "u", "l", "e", "s">>,
    <<"l", "o", "g">>,
    <<"*", ".", "t", "x", "t">>,
    <<"*", "/", "a">>,
    <<"*">>,
    <<"x", "*">> }

PatternLists ==
  UNION {[1..n -> SampleIgnorePatterns] : n \in 0..MaxPatterns}

InitIgnore ==
  /\ IdleWalk
  /\ IdleLines
  /\ ignore_call = [fn |-> "none", path |-> <<>>, patterns |-> <<>>, result |-> FALSE]
  /\ offered = 0 /\ last_offered = None
  /\ IdleRegistry
  /\ config_call = NoConfigCall
  /\ file_records = {}

\* a call of utils.file_utils.should_ignore_path(path, ignore_patterns)
CallShouldIgnorePath ==
  /\ ignore_call.fn = "none"
  /\ \E path \in SamplePaths, patterns \in PatternLists :
       ignore_call' = [fn |-> "should_ignore_path", path |-> path, patterns |-> patterns,
                       result |-> should_ignore_path(path, patterns)]
  /\ UNCHANGED <<walk_vars, line_vars, offered, last_offered, registry_vars, config_call>>

\* a call of Config.should_ignore_file(file_path, custom_ignore): the patterns that
\* apply are default_ignore_patterns + custom_ignore
CallShouldIgnoreFile ==
  /\ ignore_call.fn = "none"
  /\ \E path \in SamplePaths, custom \in PatternLists :
       ignore_call' = [fn |-> "should_ignore_file", path |-> path,
                       patterns |-> DEFAULT_IGNORE_PATTERNS \o custom,
                       result |-> should_ignore_file(path, custom)]
  /\ UNCHANGED <<walk_vars, line_vars, offered, last_offered, registry_vars, config_call>>

NextIgnore ==
  \/ CallShouldIgnorePath
  \/ CallShouldIgnoreFile

SpecIgnore == InitIgnore /\ [][NextIgnore]_vars

(***************************************************************************)
(* The largest-files tracker on its own: records of arbitrary sizes are     *)
(* offered as the walk offers them, then analyze() builds its result        *)
(***************************************************************************)
OfferedRecord(size) ==
  [path |-> <<>>, name |-> <<>>, type |-> "Unknown", size |-> size, lines |-> 0,
   code_lines |-> 0, comment_lines |-> 0, blank_lines |-> 0, extension |-> <<>>]

InitTracker ==
  /\ version \in {"refactored", "original"}
  /\ tree = 1 /\ order = "asc" /\ root_exists = TRUE
  /\ config = DefaultConfig /\ given = [ignore_patterns |-> <<>>, max_depth |-> None]
  /\ ignore_patterns = <<>> /\ max_depth = None
  /\ pc = "walking" /\ stack = <<>> /\ stats = ProjectStats /\ files = <<>>
  /\ largest_files = <<>> /\ _result = None /\ outcome = "running" /\ visited = {} /\ runs = 1
  /\ successes = 0 /\ report = NoReport /\ returned = <<>>
  /\ progress = AnalysisProgress /\ log = <<>>
  /\ IdleLines
  /\ ignore_call = [fn |-> "none", path |-> <<>>, patterns |-> <<>>, result |-> FALSE]
  /\ offered = 0 /\ last_offered = None
  /\ IdleRegistry
  /\ config_call = NoConfigCall
  /\ file_records = {}

\* the walk folds in one more file: the tracker is offered its record
Offer ==
  /\ pc = "walking" /\ offered < MaxOffers
  /\ \E size \in 1..MaxSize :
       /\ largest_files' = track_largest(version, largest_files, OfferedRecord(size))
       /\ last_offered' = Some(OfferedRecord(size))
  /\ offered' = offered + 1
  /\ UNCHANGED <<version, tree, order, root_exists, config, given, ignore_patterns, max_depth,
                 file_records,
                 pc, stack, stats, files, _result, outcome, visited, runs>>
  /\ UNCHANGED <<successes, report, returned, progress, log>>
  /\ UNCHANGED <<line_vars, ignore_call, registry_vars, config_call>>

\* analyze() returns: the refactored result keeps largest_files[:10]
TrackerReturn ==
  /\ pc = "walking"
  /\ pc' = "idle"
  /\ outcome' = "returned"
  /\ _result' = IF version = "refactored"
                  THEN Some(AnalysisResult(stats, files, largest_files))
                  ELSE _result
  /\ UNCHANGED <<version, tree, order, root_exists, config, given, ignore_patterns, max_depth,
                 file_records,
                 stack, stats, files, largest_files, visited, runs>>
  /\ successes' = successes + 1
  /\ returned' = Append(returned, returned_value)
  /\ UNCHANGED <<report, progress, log>>
  /\ UNCHANGED <<line_vars, ignore_call, offered, last_offered, registry_vars, config_call>>

NextTracker ==
  \/ Offer
  \/ TrackerReturn

SpecTracker == InitTracker /\ [][NextTracker]_vars

(***************************************************************************)
(* The largest-files list against the file list: the walk of the refactored *)
(* analyzer folds in files one by one, then analyze() builds its result     *)
(***************************************************************************)
MaxFiles == 21       \* files folded in by one walk
MaxTopSize == 2      \* sizes of those files

\* the path of the k-th file found: /f, /ff, /fff, ...
RECURSIVE NumberedPath(_)
NumberedPath(k) ==
  IF k = 0 THEN <<"/">> ELSE Append(NumberedPath(k - 1), "f")

\* the FileInfo of the k-th file found, of the given size
DiscoveredFile(k, size) ==
  [OfferedRecord(size) EXCEPT !.path = NumberedPath(k)]

\* the sizes in the list never fall, or never rise
Monotone(list) ==
  \/ \A i \in 1..(Len(list) - 1) : list[i].size <= list[i + 1].size
  \/ \A i \in 1..(Len(list) - 1) : list[i].size >= list[i + 1].size

InitLargest ==
  /\ InitTracker
  /\ version = "refactored"

\* one loop iteration on a file that is folded in: file list, statistics, largest
\* files, progress. The files found so far rise or fall in size; the next one is of
\* any size.
FoldFile ==
  /\ pc = "walking" /\ offered < MaxFiles
  /\ Monotone(files)
  /\ \E size \in 1..MaxTopSize :
       LET file_info == DiscoveredFile(offered + 1, size) IN
         /\ files' = Append(files, file_info)
         /\ stats' = add_file_to_stats(stats, file_info)
         /\ largest_files' = track_largest_refactored(largest_files, file_info)
         /\ last_offered' = Some(file_info)
         /\ progress' = [progress EXCEPT !.processed_items = @ + 1,
                                         !.current_file = Some(file_info.path)]
  /\ offered' = offered + 1
  /\ UNCHANGED <<version, tree, order, root_exists, config, given, ignore_patterns, max_depth,
                 file_records,
                 pc, stack, _result, outcome, visited, runs>>
  /\ UNCHANGED <<successes, report, returned, log>>
  /\ UNCHANGED <<line_vars, ignore_call, registry_vars, config_call>>

NextLargest ==
  \/ FoldFile
  \/ TrackerReturn

SpecLargest == InitLargest /\ [][NextLargest]_vars

(***************************************************************************)
(* The file-type registry on its own                                        *)
(***************************************************************************)
SampleExtensions ==
  { <<".", "P", "Y">>, <<".", "x", "y", "z">>, <<".", "X", "y", "Z">>, <<".", "m", "d">> }

SampleCategories == {"Custom", "Python", "Text"}

SampleFileNames ==
  { <<"a", ".", "p", "y">>, <<"A", ".", "P", "Y">>, <<"b", ".", "X", "y", "z">>,
    <<"c", ".", "X", "Y", "Z">>, <<"d", ".", "m", "d">>, <<"R", "E", "A", "D", "M", "E">>,
    <<".", "x", "y", "z">>, <<"e", ".", "x", "y", "z", ".", "j", "s">>, <<"f", ".">> }

InitRegistry ==
  /\ IdleWalk
  /\ IdleLines
  /\ ignore_call = [fn |-> "none", path |-> <<>>, patterns |-> <<>>, result |-> FALSE]
  /\ offered = 0 /\ last_offered = None
  /\ IdleRegistry
  /\ config_call = NoConfigCall
  /\ file_records = {}

\* a call of file_type_registry.register_extension(extension, file_type)
RegisterExtension ==
  /\ registry_call.n < MaxRegistrations
  /\ \E extension \in SampleExtensions, file_type \in SampleCategories :
       /\ registry' = register_extension(registry, extension, file_type)
       /\ registry_call' = [n |-> registry_call.n + 1, extension |-> extension,
                            file_type |-> file_type]
  /\ UNCHANGED <<walk_vars, line_vars, ignore_call, offered, last_offered, config_call>>

NextRegistry ==
  RegisterExtension

SpecRegistry == InitRegistry /\ [][NextRegistry]_vars

(***************************************************************************)
(* Configuration: a Config is constructed and assigned to, a refactored     *)
(* analyzer is constructed with it, and analyze() walks the filtered tree   *)
(***************************************************************************)
\* the max_file_size_mb values offered to Config(...) and to config.max_file_size_mb = v
SampleSizesMb == {-1, 0, 1, DefaultMaxFileSizeMb}

\* the max_depth values offered to Config(...), to config.max_depth = v and to
\* CodebaseAnalyzer(max_depth = v)
SampleDepths == {None, Some(-1), Some(0), Some(1)}

\* a default Config exists and no analyzer has been constructed yet
InitConfig ==
  /\ version = "refactored" /\ tree = 3 /\ order = "asc" /\ root_exists = TRUE
  /\ config = DefaultConfig /\ given = [ignore_patterns |-> <<>>, max_depth |-> None]
  /\ ignore_patterns = <<>> /\ max_depth = None
  /\ pc = "configuring" /\ stack = <<>> /\ stats = ProjectStats /\ files = <<>>
  /\ largest_files = <<>> /\ _result = None /\ outcome = "none" /\ visited = {} /\ runs = 0
  /\ successes = 0 /\ report = NoReport /\ returned = <<>>
  /\ progress = AnalysisProgress /\ log = <<>>
  /\ IdleLines
  /\ ignore_call = [fn |-> "none", path |-> <<>>, patterns |-> <<>>, result |-> FALSE]
  /\ offered = 0 /\ last_offered = None
  /\ IdleRegistry
  /\ config_call = NoConfigCall
  /\ file_records = {}

\* Config(max_file_size_mb = size, max_depth = depth): validate_max_file_size and
\* validate_max_depth run on the values given; a rejected construction leaves the
\* Config in use as it was
ConstructConfig ==
  /\ pc = "configuring"
  /\ \E size \in SampleSizesMb, depth \in SampleDepths :
       IF size <= 0
         THEN /\ config_call' = [op |-> "Config", field |-> "max_file_size_mb",
                                 value |-> Some(size), raised |-> "ValidationError"]
              /\ UNCHANGED config
       ELSE IF depth # None /\ depth[1] < 0
         THEN /\ config_call' = [op |-> "Config", field |-> "max_depth",
                                 value |-> depth, raised |-> "ValidationError"]
              /\ UNCHANGED config
       ELSE /\ config_call' = [op |-> "Config", field |-> "max_depth",
                               value |-> depth, raised |-> "none"]
            /\ config' = [DefaultConfig EXCEPT !.max_file_size_mb = size, !.max_depth = depth]
  /\ UNCHANGED <<version, tree, order, root_exists, given, ignore_patterns, max_depth,
                 pc, stack, stats, files, largest_files, _result, outcome, visited, runs,
                 successes, report, returned, progress, log>>
  /\ UNCHANGED <<line_vars, ignore_call, offered, last_offered, registry_vars>>
  /\ UNCHANGED file_records

\* config.max_file_size_mb = max_file_size of the analyze command, setattr(config, key,
\* value) of load_config: Config does not validate assignments
AssignMaxFileSize ==
  /\ pc = "configuring"
  /\ \E size \in SampleSizesMb :
       /\ config' = [config EXCEPT !.max_file_size_mb = size]
       /\ config_call' = [op |-> "setattr", field |-> "max_file_size_mb",
                          value |-> Some(size), raised |-> "none"]
  /\ UNCHANGED <<version, tree, order, root_exists, given, ignore_patterns, max_depth,
                 pc, stack, stats, files, largest_files, _result, outcome, visited, runs,
                 successes, report, returned, progress, log>>
  /\ UNCHANGED <<line_vars, ignore_call, offered, last_offered, registry_vars>>
  /\ UNCHANGED file_records

\* config.max_depth = max_depth of the analyze command, setattr(config, key, value) of
\* load_config
AssignMaxDepth ==
  /\ pc = "configuring"
  /\ \E depth \in SampleDepths :
       /\ config' = [config EXCEPT !.max_depth = depth]
       /\ config_call' = [op |-> "setattr", field |-> "max_depth",
                          value |-> depth, raised |-> "none"]
  /\ UNCHANGED <<version, tree, order, root_exists, given, ignore_patterns, max_depth,
                 pc, stack, stats, files, largest_files, _result, outcome, visited, runs,
                 successes, report, returned, progress, log>>
  /\ UNCHANGED <<line_vars, ignore_call, offered, last_offered, registry_vars>>
  /\ UNCHANGED file_records

\* CodebaseAnalyzer(project_path, config = config, max_depth = depth)
ConstructAnalyzer ==
  /\ pc = "configuring"
  /\ pc' = "idle"
  /\ \E depth \in SampleDepths :
       /\ given' = [ignore_patterns |-> <<>>, max_depth |-> depth]
       /\ max_depth' = Or(depth, config.max_depth)
  /\ ignore_patterns' = OrList(<<>>, <<>>)
  /\ UNCHANGED <<version, tree, order, root_exists, config,
                 stack, stats, files, largest_files, _result, outcome, visited, runs,
                 successes, report, returned, progress, log>>
  /\ UNCHANGED <<line_vars, ignore_call, offered, last_offered, registry_vars, config_call>>
  /\ UNCHANGED file_records

NextConfig ==
  \/ ConstructConfig
  \/ AssignMaxFileSize
  \/ AssignMaxDepth
  \/ ConstructAnalyzer
  \/ AnalyzeBegin
  \/ SkipEntry
  \/ VisitFile
  \/ VisitDirectory
  \/ ReturnFromDirectory
  \/ AnalyzeReturn

SpecConfig == InitConfig /\ [][NextConfig]_vars

(***************************************************************************)
(* Properties                                                               *)
(***************************************************************************)
\* the tree entry a FileInfo was made from
NodeAt(path) ==
  CHOOSE n \in DOMAIN Nodes : path_of(n) = path

\* the file's extension is one its analyzer reads as text, and open/decode succeed
ReadAsText(rec) ==
  LET n == NodeAt(rec.path) IN
    /\ Nodes[n].read_ok
    /\ IF version = "refactored" THEN lower(suffix(Nodes[n].name)) \in config.text_file_extensions
       ELSE lower(suffix(Nodes[n].name)) \in text_file_extensions

RECURSIVE SumValues(_)
SumValues(table) ==
  IF table = {} THEN 0
  ELSE LET p == CHOOSE q \in table : TRUE IN p[2] + SumValues(table \ {p})

\* C1: every FileInfo made from a file that was read as text without error has
\* code_lines + comment_lines + blank_lines = lines, and lines is the number of lines
\* of the file: each line is counted in exactly one class.
C1_LineClassesSumToLines ==
  \A i \in 1..Len(files) :
    ReadAsText(files[i]) =>
      /\ files[i].code_lines + files[i].comment_lines + files[i].blank_lines = files[i].lines
      /\ files[i].lines = Len(Nodes[NodeAt(files[i].path)].lines)

C1_Witness ==
  \E i \in 1..Len(files) :
    /\ ReadAsText(files[i])
    /\ files[i].code_lines > 0 /\ files[i].comment_lines > 0 /\ files[i].blank_lines > 0

MapsAgreeWithTotals(st) ==
  /\ SumValues(st.file_types) = st.total_files
  /\ SumValues(st.file_sizes) = st.total_size
  /\ SumValues(st.lines_by_type) = st.total_lines

\* C2: in every state of a traversal (each file is folded in atomically) and in the
\* stored result, the values of file_types sum to total_files, those of file_sizes to
\* total_size and those of lines_by_type to total_lines.
C2_MapsAgreeWithTotals ==
  /\ MapsAgreeWithTotals(stats)
  /\ _result # None => MapsAgreeWithTotals(_result[1].stats)

C2_Witness ==
  /\ pc = "walking"
  /\ stats.total_files >= 2
  /\ Cardinality(stats.file_types) >= 2
  /\ stats.total_lines > 0

\* a tree with no hidden, ignored or oversized entry, every entry of which can be
\* listed and read
PlainTree ==
  /\ \A n \in DOMAIN Nodes \ {Root} : ~startswith(Nodes[n].name, <<".">>)
  /\ \A n \in DOMAIN Nodes :
       /\ ~\E i \in 1..Len(DEFAULT_IGNORE_PATTERNS \o ignore_patterns) :
             LET pattern == (DEFAULT_IGNORE_PATTERNS \o ignore_patterns)[i] IN
               IF Head(pattern) = "*" THEN endswith(path_of(n), Tail(pattern))
               ELSE In(pattern, path_of(n))
       /\ Nodes[n].size <= DefaultMaxFileSizeMb * 1024 * 1024
       /\ Nodes[n].read_ok /\ Nodes[n].list_ok /\ Nodes[n].stat = "ok"

TextFileNodes ==
  {n \in FileNodes : lower(suffix(Nodes[n].name)) \in text_file_extensions}

Categories ==
  {get_file_type_registry(Nodes[n].name) : n \in FileNodes}

\* C3: for a plain tree and no depth limit, the result analyze() of the refactored
\* analyzer returns has total_files = number of files of the tree, total_dirs = number
\* of directories below the root, total_lines = sum of the line counts of the files,
\* and file_types counting each file under the category of its extension.
C3_PlainTreeTotals ==
  (version = "refactored" /\ pc = "idle" /\ outcome = "returned" /\ max_depth = None
     /\ PlainTree) =>
    LET st == _result[1].stats IN
      /\ st.total_files = Cardinality(FileNodes)
      /\ st.total_dirs = Cardinality(DirNodes \ {Root})
      /\ st.total_lines = SumOver(TextFileNodes, [n \in TextFileNodes |-> Len(Nodes[n].lines)])
      /\ st.file_types =
           {<<c, Cardinality({n \in FileNodes : get_file_type_registry(Nodes[n].name) = c})>> :
              c \in Categories}

C3_Witness ==
  /\ version = "refactored" /\ pc = "idle" /\ outcome = "returned" /\ max_depth = None
  /\ PlainTree /\ tree = 1
  /\ _result[1].stats.total_files = 2
  /\ _result[1].stats.total_dirs = 1
  /\ _result[1].stats.total_lines = 15
  /\ _result[1].stats.file_types = {<<"Python", 1>>, <<"JavaScript", 1>>}

\* C4: analyze() on a project path that does not exist raises FileNotFoundError
\* having visited nothing, and leaves the stored result and the statistics as they were.
C4_NotFoundChangesNothing ==
  [][(pc = "idle" /\ ~root_exists /\ runs' = runs + 1) =>
       /\ outcome' = "FileNotFoundError"
       /\ visited' = {}
       /\ pc' = "idle"
       /\ _result' = _result
       /\ stats' = stats /\ files' = files /\ largest_files' = largest_files]_vars

C4_Witness ==
  /\ outcome = "FileNotFoundError"
  /\ runs = 2
  /\ files # <<>>
  /\ stats.total_files > 0

\* a depth limit of 0 was asked for, through the max_depth argument or the Config
RequestedDepthZero ==
  \/ given.max_depth = Some(0)
  \/ version = "refactored" /\ given.max_depth = None /\ config.max_depth = Some(0)

\* C5: when max_depth = 0 is asked for, through the Config or through the max_depth
\* argument, only files directly in the root are analysed and no subdirectory is entered.
C5_DepthZeroStaysInRoot ==
  RequestedDepthZero =>
    /\ \A i \in 1..Len(files) : Nodes[NodeAt(files[i].path)].parent = Root
    /\ \A k \in 1..Len(stack) : stack[k].directory = Root

\* C6: a file whose extension is in the binary set, or is not in the text set, is not
\* read: its FileInfo has all four line counts 0 and carries its size and category.
C6_BinaryOrNonTextNotRead ==
  version = "refactored" =>
    \A i \in 1..Len(files) :
      LET rec == files[i]
          n == NodeAt(rec.path)
          ext == lower(suffix(Nodes[n].name))
      IN (ext \in config.binary_extensions \/ ext \notin config.text_file_extensions) =>
           /\ rec.lines = 0 /\ rec.code_lines = 0 /\ rec.comment_lines = 0 /\ rec.blank_lines = 0
           /\ rec.size = Nodes[n].size
           /\ rec.type = get_file_type_registry(Nodes[n].name)

\* a pattern starting with * matches a path that ends with the rest of it; any other
\* pattern matches a path it occurs in
PatternMatches(pattern, path) ==
  IF pattern # <<>> /\ pattern[1] = "*"
    THEN \E k \in 0..Len(path) : SubSeq(path, k + 1, Len(path)) = SubSeq(pattern, 2, Len(pattern))
    ELSE \E i \in 1..(Len(path) + 1), j \in 0..Len(path) : SubSeq(path, i, j) = pattern

\* C7: should_ignore returns true exactly when some pattern of the list matches the
\* path, and false when none does.
C7_IgnoredIffSomePatternMatches ==
  ignore_call.fn # "none" =>
    (ignore_call.result <=>
       \E i \in 1..Len(ignore_call.patterns) :
         PatternMatches(ignore_call.patterns[i], ignore_call.path))

C7_Witness ==
  /\ ignore_call.fn = "should_ignore_path"
  /\ ignore_call.patterns = << <<"l", "o", "g">>, <<"*", ".", "l", "o", "g">> >>
  /\ ignore_call.path = <<"/", "a", "/", "b", "/", "a", "p", "p", ".", "l", "o", "g">>
  /\ ignore_call.result = TRUE

IsBlank(line) ==
  \A i \in 1..Len(line) : line[i] \in Whitespace

\* the line, after its leading whitespace, starts with the marker
StartsWithMarker(line, marker) ==
  \E k \in 0..Len(line) :
    /\ \A i \in 1..k : line[i] \in Whitespace
    /\ k + Len(marker) <= Len(line)
    /\ SubSeq(line, k + 1, k + Len(marker)) = marker

IsSingleLineComment(line, cp) ==
  ~IsBlank(line) /\ cp.single # <<>> /\ StartsWithMarker(line, cp.single)

\* C8: with no multi-line markers each line is classified on its own: blank if empty
\* after stripping, comment if a single-line marker is defined and the stripped line
\* starts with it, code otherwise; with no marker at all every non-blank line is code.
C8_LinesClassifiedIndependently ==
  LET cp == comment_patterns_in_use
      n == Len(content)
  IN (cp.multi_start = <<>> /\ cp.multi_end = <<>>) =>
       /\ line_state.blank_lines = Cardinality({i \in 1..n : IsBlank(content[i])})
       /\ line_state.comment_lines = Cardinality({i \in 1..n : IsSingleLineComment(content[i], cp)})
       /\ line_state.code_lines =
            Cardinality({i \in 1..n : ~IsBlank(content[i]) /\ ~IsSingleLineComment(content[i], cp)})
       /\ ~line_state.in_multiline_comment

C8_Witness ==
  /\ comment_patterns_in_use = [single |-> <<"#">>, multi_start |-> <<>>, multi_end |-> <<>>]
  /\ content = <<EmptyLine, HashComment, Assignment>>
  /\ line_state.code_lines = 1 /\ line_state.comment_lines = 1 /\ line_state.blank_lines = 1

HasStart(line) ==
  In(comment_patterns_in_use.multi_start, line)

HasEnd(line) ==
  In(comment_patterns_in_use.multi_end, line)

\* line i opens a comment that is still open before line j: line i has the start
\* marker and not the end marker, and no line between them has the end marker
OpenFrom(i, j) ==
  /\ i < j
  /\ HasStart(content[i]) /\ ~HasEnd(content[i])
  /\ \A k \in (i + 1)..(j - 1) : ~HasEnd(content[k])

\* C9: with distinct start and end markers, after a line with the start marker and
\* not the end marker every non-blank line up to and including the first line with
\* the end marker is counted as comment, and the lines after that one are classified
\* normally again.
C9_CommentClosedByFirstEndLine ==
  LET cp == comment_patterns_in_use
      n == Len(content)
  IN (cp.multi_start # <<>> /\ cp.multi_end # <<>> /\ cp.multi_start # cp.multi_end /\ n > 0) =>
       /\ ((\E i \in 1..n : OpenFrom(i, n)) /\ ~IsBlank(content[n])) =>
            line_state.last = "comment_lines"
       /\ (\E i, j \in 1..n :
             /\ OpenFrom(i, j) /\ HasEnd(content[j]) /\ j < n
             /\ \A k \in (j + 1)..n : ~HasStart(content[k]) /\ ~HasEnd(content[k])) =>
            /\ ~line_state.in_multiline_comment
            /\ line_state.last = IF IsBlank(content[n]) THEN "blank_lines"
                                 ELSE IF IsSingleLineComment(content[n], cp) THEN "comment_lines"
                                 ELSE "code_lines"

SortedBySizeDescending(list) ==
  \A i \in 1..(Len(list) - 1) : list[i].size >= list[i + 1].size

\* C10: after every offer the tracker holds at most 20 records in the refactored
\* analyzer and at most 10 in the original one, the returned result holds at most 10,
\* and the records are in non-increasing order of size.
C10_TrackerBoundedAndSorted ==
  /\ Len(largest_files) <= (IF version = "refactored" THEN 20 ELSE 10)
  /\ SortedBySizeDescending(largest_files)
  /\ _result # None =>
       /\ Len(_result[1].largest_files) <= 10
       /\ SortedBySizeDescending(_result[1].largest_files)

C10_Witness ==
  /\ version = "refactored"
  /\ offered > 20
  /\ Len(largest_files) = 20
  /\ largest_files[1].size > largest_files[20].size
  /\ _result # None /\ Len(_result[1].largest_files) = 10

\* the number of records the tracker holds at most while the walk runs
Capacity ==
  IF version = "refactored" THEN 20 ELSE 10

\* C11: when the largest-files tracker holds as many records as it can, offering a
\* record whose size is smaller than that of every record it holds leaves the list as
\* it was, in membership and in order.
C11_SmallerOfferAtCapacityChangesNothing ==
  [][(/\ offered' = offered + 1
      /\ Len(largest_files) = Capacity
      /\ \A i \in 1..Len(largest_files) : last_offered'[1].size < largest_files[i].size)
       => largest_files' = largest_files]_vars

C11_Witness ==
  /\ offered > Capacity
  /\ Len(largest_files) = Capacity
  /\ last_offered # None
  /\ \A i \in 1..Len(largest_files) : last_offered[1].size < largest_files[i].size
  /\ largest_files[1].size > largest_files[Capacity].size

\* the entry's own name starts with a dot
Hidden(n) ==
  Nodes[n].name # <<>> /\ Nodes[n].name[1] = "."

\* the entry, or a directory between it and the root, is hidden
RECURSIVE InHidden(_)
InHidden(n) ==
  IF n = Root THEN FALSE ELSE Hidden(n) \/ InHidden(Nodes[n].parent)

\* C12: with include_hidden false, no entry whose name starts with a dot is analysed,
\* counted in total_files or total_dirs, or descended into, whatever the ignore
\* patterns are: every FileInfo and every directory being listed lies outside hidden
\* entries, total_files counts the FileInfos and total_dirs the directories met that
\* are not hidden.
C12_HiddenEntriesSkipped ==
  (version = "refactored" /\ ~config.include_hidden
     /\ (pc = "walking" \/ outcome = "returned")) =>
    /\ \A i \in 1..Len(files) : ~InHidden(NodeAt(files[i].path))
    /\ \A k \in 1..Len(stack) : ~InHidden(stack[k].directory)
    /\ stats.total_files = Len(files)
    /\ stats.total_dirs =
         Cardinality({n \in visited \ {Root} : Nodes[n].kind = "dir" /\ ~Hidden(n)})

C12_Witness ==
  /\ version = "refactored" /\ ~config.include_hidden /\ pc = "walking"
  /\ stack = <<>>
  /\ \E d \in visited :
       /\ Nodes[d].kind = "dir" /\ Hidden(d)
       /\ ~should_ignore_file(path_of(d), ignore_patterns)
       /\ \E n \in FileNodes : Nodes[n].parent = d
  /\ \E n \in visited : Nodes[n].kind = "file" /\ Hidden(n)
  /\ stats.total_files > 0 /\ stats.total_dirs > 0

\* C13: on one analyzer, export_result, generate_report and display_report raise
\* RuntimeError and change nothing as long as no analyze() call has returned; once one
\* has, they do not raise RuntimeError and what they hand on is the result of the most
\* recent analyze() call that returned.
C13_ReportsNeedAResult ==
  [][(report' # report /\ report'.fn # "none") =>
       IF successes = 0
         THEN /\ report'.raised = "RuntimeError"
              /\ report'.used = None
              /\ UNCHANGED <<_result, stats, files, largest_files, outcome, runs, successes>>
         ELSE /\ report'.raised # "RuntimeError"
              /\ report'.raised = "none" =>
                   report'.used = Some(AnalysisResult(stats, files, largest_files))
              /\ UNCHANGED <<_result, successes>>]_vars

C13_Witness ==
  /\ report.fn = "export_result" /\ report.raised = "none"
  /\ successes = 1 /\ runs = 2 /\ outcome = "FileNotFoundError"
  /\ report.used = _result
  /\ _result[1].stats.total_files > 0

\* the extension of a file name: from its last dot on, when that dot is neither the
\* first nor the last character; empty otherwise
ExtensionOf(name) ==
  LET last_dots == {k \in 1..Len(name) :
                      name[k] = "." /\ \A j \in (k + 1)..Len(name) : name[j] # "."}
  IN IF \E k \in last_dots : 1 < k /\ k < Len(name)
       THEN LET k == CHOOSE d \in last_dots : TRUE IN SubSeq(name, k, Len(name))
       ELSE <<>>

\* C14: a lookup returns the category registered for the lowercased extension of the
\* name and "Unknown" when none is registered; after register_extension(ext, category)
\* a lookup of that extension in any letter case returns category, and a lookup of any
\* other extension returns what it returned before.
C14_RegistryLookup ==
  [][registry_call' # registry_call =>
       \A name \in SampleFileNames :
         LET ext == lower(ExtensionOf(name))
             got == registry_get_file_type(registry', name)
         IN /\ got = IF ext = lower(registry_call'.extension)
                       THEN registry_call'.file_type
                       ELSE registry_get_file_type(registry, name)
            /\ IF \E pair \in registry' : pair[1] = ext
                 THEN <<ext, got>> \in registry'
                 ELSE got = "Unknown"]_vars

C14_Witness ==
  /\ registry_call.n = 2
  /\ registry_call.extension = <<".", "X", "y", "Z">>
  /\ registry_call.file_type = "Custom"
  /\ registry_get_file_type(registry, <<"c", ".", "X", "Y", "Z">>) = "Custom"
  /\ registry_get_file_type(registry, <<"b", ".", "X", "y", "z">>) = "Custom"
  /\ registry_get_file_type(registry, <<"A", ".", "P", "Y">>) = "Text"
  /\ registry_get_file_type(registry, <<"d", ".", "m", "d">>) = "Markdown"
  /\ registry_get_file_type(registry, <<"R", "E", "A", "D", "M", "E">>) = "Unknown"

\* the line holds neither multi-line marker
NoMarker(line) ==
  ~HasStart(line) /\ ~HasEnd(line)

\* how a line outside any comment is classified
ClassifiedAlone(line) ==
  IF IsBlank(line) THEN "blank_lines"
  ELSE IF IsSingleLineComment(line, comment_patterns_in_use) THEN "comment_lines"
  ELSE "code_lines"

\* C15: with distinct markers, a line holding both the start and the end marker, met
\* outside any multi-line comment (no line before it holds a marker), is counted as one
\* comment line and leaves in_multiline false, so that the lines after it are
\* classified as they would be on their own.
C15_BothMarkersOnOneLine ==
  LET cp == comment_patterns_in_use
      n == Len(content)
  IN (cp.multi_start # <<>> /\ cp.multi_end # <<>> /\ cp.multi_start # cp.multi_end) =>
       \A j \in 1..n :
         (/\ HasStart(content[j]) /\ HasEnd(content[j])
          /\ \A k \in 1..n : k # j => NoMarker(content[k])) =>
           /\ ~line_state.in_multiline_comment
           /\ line_state.comment_lines =
                1 + Cardinality({k \in 1..n : k # j /\ IsSingleLineComment(content[k], cp)})
           /\ line_state.last = IF j = n THEN "comment_lines" ELSE ClassifiedAlone(content[n])

\* whether the classifier is inside a multi-line comment after the first k lines, by
\* the rule: a start-marker line met outside a comment opens one, an end-marker line
\* met inside a comment closes it
RECURSIVE OpenAfter(_)
OpenAfter(k) ==
  IF k = 0 THEN FALSE
  ELSE LET before == OpenAfter(k - 1)
           line == content[k]
       IN IF IsBlank(line) THEN before
          ELSE IF ~before THEN HasStart(line)
          ELSE ~HasEnd(line)

\* C16: while inside a multi-line comment, a line holding the end marker is counted as
\* comment and ends the comment, also when start and end marker are the same string;
\* the non-blank lines after it are classified as code or single-line comment again.
C16_EndMarkerClosesComment ==
  LET cp == comment_patterns_in_use
      n == Len(content)
  IN (cp.multi_start # <<>> /\ cp.multi_end # <<>>) =>
       /\ (n > 0 /\ OpenAfter(n - 1) /\ HasEnd(content[n])) =>
            /\ ~line_state.in_multiline_comment
            /\ line_state.last = "comment_lines"
       /\ (n > 1 /\ OpenAfter(n - 2) /\ HasEnd(content[n - 1]) /\ NoMarker(content[n])) =>
            line_state.last = ClassifiedAlone(content[n])

\* the configured max file size, in bytes
SizeLimit ==
  config.max_file_size_mb * 1024 * 1024

\* the indices of the records of category c in a list of records
OfCategory(list, c) ==
  {i \in 1..Len(list) : list[i].type = c}

\* the totals and per-category maps are those of the listed records and of nothing else
TotalsOfListedFiles(st, list) ==
  /\ st.total_files = Len(list)
  /\ st.total_size = SumOver(1..Len(list), [i \in 1..Len(list) |-> list[i].size])
  /\ st.total_lines = SumOver(1..Len(list), [i \in 1..Len(list) |-> list[i].lines])
  /\ \A c \in {list[i].type : i \in 1..Len(list)} :
       /\ <<c, Cardinality(OfCategory(list, c))>> \in st.file_types
       /\ <<c, SumOver(OfCategory(list, c), [i \in 1..Len(list) |-> list[i].size])>>
            \in st.file_sizes
  /\ Cardinality(st.file_types) = Cardinality({list[i].type : i \in 1..Len(list)})
  /\ Cardinality(st.file_sizes) = Cardinality({list[i].type : i \in 1..Len(list)})

\* a file the walk has met that is neither hidden nor matched by an ignore pattern
MetAndNotFilteredOut(n) ==
  /\ n \in visited /\ Nodes[n].kind = "file"
  /\ ~(~config.include_hidden /\ Hidden(n))
  /\ ~should_ignore_file(path_of(n), ignore_patterns)

\* C17: a file larger than the configured max file size is skipped entirely: no record
\* of it is in the file list or in the largest-files list, and the totals and
\* per-category maps are those of the listed files only; a file whose size equals the
\* limit is analysed.
C17_OversizedSkippedEntirely ==
  (version = "refactored" /\ (pc = "walking" \/ outcome = "returned")) =>
    /\ \A i \in 1..Len(files) : files[i].size <= SizeLimit
    /\ \A i \in 1..Len(largest_files) : largest_files[i].size <= SizeLimit
    /\ TotalsOfListedFiles(stats, files)
    /\ \A n \in FileNodes :
         (Nodes[n].size = SizeLimit /\ MetAndNotFilteredOut(n)) =>
           \E i \in 1..Len(files) : files[i].path = path_of(n) /\ files[i].lines > 0

C17_Witness ==
  /\ version = "refactored" /\ outcome = "returned"
  /\ \E n \in FileNodes : MetAndNotFilteredOut(n) /\ Nodes[n].size > SizeLimit
  /\ \E i \in 1..Len(_result[1].files) : _result[1].files[i].size = SizeLimit

\* C18 as stated: a file larger than the configured max file size is still recorded
\* without being read: the result holds a record for it with its size and category
\* and all four line counts 0.
C18_OversizedRecordedWithZeroCounts ==
  (version = "refactored" /\ pc = "idle" /\ outcome = "returned") =>
    \A n \in FileNodes :
      (MetAndNotFilteredOut(n) /\ Nodes[n].size > SizeLimit) =>
        \E i \in 1..Len(_result[1].files) :
          LET rec == _result[1].files[i] IN
            /\ rec.path = path_of(n) /\ rec.size = Nodes[n].size
            /\ rec.type = get_file_type_registry(Nodes[n].name)
            /\ rec.lines = 0 /\ rec.code_lines = 0 /\ rec.comment_lines = 0
            /\ rec.blank_lines = 0

\* C18 amended: a file larger than the configured max file size gets no record at all;
\* a record with line count 0 in the result is that of a file within the limit that
\* is not a text file, could not be read, or is empty.
C18_OversizedGetsNoRecord ==
  _result # None =>
    \A i \in 1..Len(_result[1].files) :
      LET rec == _result[1].files[i]
          n == NodeAt(rec.path)
      IN /\ rec.size = Nodes[n].size
         /\ rec.size <= SizeLimit
         /\ rec.lines = 0 =>
              \/ lower(ExtensionOf(Nodes[n].name)) \notin config.text_file_extensions
              \/ ~Nodes[n].read_ok
              \/ Nodes[n].lines = <<>>

C18_Witness ==
  /\ _result # None /\ tree = 3
  /\ \E n \in FileNodes : MetAndNotFilteredOut(n) /\ Nodes[n].size > SizeLimit
  /\ \E i \in 1..Len(_result[1].files) : _result[1].files[i].size = SizeLimit
  /\ \A i \in 1..Len(_result[1].files) : _result[1].files[i].size <= SizeLimit

\* the patterns the analyzer's ignore check goes through
PatternsInEffect ==
  IF version = "refactored" THEN DEFAULT_IGNORE_PATTERNS \o ignore_patterns
  ELSE ignore_patterns

\* some pattern in effect matches the entry's path
Ignored(n) ==
  \E i \in 1..Len(PatternsInEffect) : PatternMatches(PatternsInEffect[i], path_of(n))

\* the entry is passed over as hidden before any other test
SkippedAsHidden(n) ==
  version = "refactored" /\ ~config.include_hidden /\ Hidden(n)

\* the entry lies in directory d, at any depth
RECURSIVE Below(_, _)
Below(n, d) ==
  IF n = Root THEN FALSE
  ELSE Nodes[n].parent = d \/ Below(Nodes[n].parent, d)

\* the statistics are those of one walk: the original analyzer keeps adding to the
\* same statistics on every analyze() call
StatsOfOneWalk ==
  \/ version = "refactored" /\ (pc = "walking" \/ outcome = "returned")
  \/ version = "original" /\ pc = "walking" /\ successes = 0
  \/ version = "original" /\ outcome = "returned" /\ successes = 1

\* C19: a directory the ignore check skips is not recursed into and nothing is counted
\* for it: it is never listed, no file below it has a record, and total_dirs counts
\* only the directories met that are not skipped.
C19_IgnoredDirectoryNotCounted ==
  StatsOfOneWalk =>
    /\ \A d \in DirNodes \ {Root} :
         Ignored(d) =>
           /\ \A k \in 1..Len(stack) : stack[k].directory # d
           /\ \A i \in 1..Len(files) : ~Below(NodeAt(files[i].path), d)
    /\ stats.total_dirs =
         Cardinality({d \in visited \ {Root} :
                        Nodes[d].kind = "dir" /\ ~SkippedAsHidden(d) /\ ~Ignored(d)})

\* the depth limit asked for, when it is 1 or more: the max_depth argument, or the
\* Config's max_depth when the refactored analyzer is given no argument
RequestedLimit ==
  IF given.max_depth # None THEN given.max_depth
  ELSE IF version = "refactored" THEN config.max_depth
  ELSE None

\* the number of directories between the root and the entry, the root being at depth 0
RECURSIVE DepthOf(_)
DepthOf(n) ==
  IF n = Root THEN 0 ELSE 1 + DepthOf(Nodes[n].parent)

\* nothing but the depth limit keeps the walk from the entry: no entry on the way to
\* it is hidden, ignored, oversized, refused by stat() or in a directory whose listing
\* or iteration fails
RECURSIVE Eligible(_)
Eligible(n) ==
  /\ ~Ignored(n)
  /\ Nodes[n].stat = "ok"
  /\ n # Root =>
       /\ Eligible(Nodes[n].parent)
       /\ Nodes[Nodes[n].parent].list_ok
       /\ \A m \in DOMAIN Nodes :
            Nodes[m].parent = Nodes[n].parent => Nodes[m].stat # "denied"
       /\ ~SkippedAsHidden(n)
       /\ (version = "refactored" /\ Nodes[n].kind = "file") => Nodes[n].size <= SizeLimit

\* C20: with max_depth = d >= 1 and the root at depth 0, a subdirectory is entered
\* exactly when its depth is at most d: no directory deeper than d is listed and no
\* file of one is analysed, and once the walk is over every file in a directory of
\* depth at most d has been analysed.
C20_DescendsToDepthLimit ==
  (RequestedLimit # None /\ RequestedLimit[1] >= 1 /\ pc = "walking") =>
    LET d == RequestedLimit[1] IN
      /\ \A k \in 1..Len(stack) : DepthOf(stack[k].directory) <= d
      /\ \A i \in 1..Len(files) : DepthOf(Nodes[NodeAt(files[i].path)].parent) <= d
      /\ stack = <<>> =>
           \A n \in FileNodes :
             \/ DepthOf(Nodes[n].parent) > d
             \/ \E i \in 1..Len(files) : files[i].path = path_of(n)
             \/ ~Eligible(n)

C20_Witness ==
  /\ RequestedLimit = Some(1) /\ pc = "walking" /\ stack = <<>> /\ tree = 2
  /\ \E i \in 1..Len(files) : DepthOf(Nodes[NodeAt(files[i].path)].parent) = 1
  /\ \E n \in FileNodes : Eligible(n) /\ DepthOf(Nodes[n].parent) = 2
  /\ \E n \in visited : Nodes[n].kind = "dir" /\ DepthOf(n) = 2

(***************************************************************************)
(* C21: repeated analyze() calls                                            *)
(***************************************************************************)
\* the statistics the caller of the i-th analyze() call holds now: the original hands out
\* self.stats, which later calls keep updating
HeldNow(i) ==
  IF returned[i].is_self_stats THEN stats ELSE returned[i].stats

\* C21: the statistics analyze() returns are final: a further analyze() call on the same
\* analyzer over the unchanged tree returns the same totals and per-category maps, and
\* the statistics an earlier call returned are not altered by it.
C21_ReturnedStatisticsAreFinal ==
  \A i \in 1..Len(returned) :
    /\ HeldNow(i) = returned[i].stats
    /\ i > 1 => returned[i].stats = returned[i - 1].stats

(***************************************************************************)
(* C22: files whose stat() or read fails                                    *)
(***************************************************************************)
\* no record of the file is in the file list
Omitted(n) ==
  \A i \in 1..Len(files) : files[i].path # path_of(n)

\* the file is recorded with its size and category and with all four line counts 0
RecordedWithZeroCounts(n) ==
  \E i \in 1..Len(files) :
    /\ files[i].path = path_of(n)
    /\ files[i].size = Nodes[n].size
    /\ files[i].type = (IF version = "refactored" THEN get_file_type_registry(Nodes[n].name)
                        ELSE get_file_type(Nodes[n].name))
    /\ files[i].lines = 0 /\ files[i].code_lines = 0
    /\ files[i].comment_lines = 0 /\ files[i].blank_lines = 0

\* a file the loop has reached whose stat() succeeds and whose read fails, and that
\* no filter keeps out of the result
ReadFails(n) ==
  /\ n \in visited /\ Nodes[n].kind = "file"
  /\ Nodes[n].stat = "ok" /\ ~Nodes[n].read_ok
  /\ ~Ignored(n) /\ ~SkippedAsHidden(n)
  /\ version = "refactored" => Nodes[n].size <= SizeLimit

\* a file the loop has reached whose stat() fails
StatFails(n) ==
  /\ n \in visited /\ Nodes[n].kind = "file"
  /\ Nodes[n].stat # "ok"
  /\ ~Ignored(n) /\ ~SkippedAsHidden(n)

\* the walk is over
WalkOver ==
  (pc = "walking" /\ stack = <<>>) \/ outcome = "returned"

C22_SkippedOrZeroCounts ==
  (pc = "walking" \/ outcome = "returned") =>
    /\ \A n \in FileNodes : StatFails(n) => Omitted(n)
    /\ TotalsOfListedFiles(stats, files)
    /\ \A n \in FileNodes : ReadFails(n) => RecordedWithZeroCounts(n)

\* C22: a file whose stat fails is omitted from the result and changes no counter, a
\* file whose stat succeeds and whose read fails is recorded with its size, its
\* category and four zero line counts, and in both cases the walk goes on with the
\* next entry: once the walk is over, every entry of the file's directory has been
\* reached.
C22_FailingFileDoesNotStopTheWalk ==
  /\ C22_SkippedOrZeroCounts
  /\ WalkOver =>
       \A n \in FileNodes : (StatFails(n) \/ ReadFails(n)) =>
         \A m \in DOMAIN Nodes : Nodes[m].parent = Nodes[n].parent => m \in visited

(***************************************************************************)
(* C23: directories whose listing or iteration fails                        *)
(***************************************************************************)
\* iterdir() of the directory raises, or is_file() of one of its entries does
ListingFails(d) ==
  /\ Nodes[d].kind = "dir"
  /\ \/ ~Nodes[d].list_ok
     \/ \E m \in DOMAIN Nodes : Nodes[m].parent = d /\ Nodes[m].stat = "denied"

\* a file the loop has reached and that no filter or failure keeps out of the result
ReachedAndKept(n) ==
  /\ n \in visited /\ Nodes[n].kind = "file" /\ Nodes[n].stat = "ok"
  /\ ~SkippedAsHidden(n)
  /\ version = "refactored" => Nodes[n].size <= SizeLimit
  /\ ~Ignored(n)

\* C23: a failure to list or iterate a directory is absorbed: the record of every file
\* reached before the failure is kept, the entries next to the failing directory are
\* all reached once the walk is over, and analyze() returns its result.
C23_ListingFailureAbsorbed ==
  /\ (pc = "walking" \/ outcome = "returned") =>
       \A n \in FileNodes :
         \/ n \notin visited
         \/ \E i \in 1..Len(files) : files[i].path = path_of(n)
         \/ ~ReachedAndKept(n)
  /\ WalkOver =>
       \A d \in DirNodes \ {Root} :
         (d \in visited /\ ListingFails(d) /\ ~ListingFails(Nodes[d].parent)) =>
           \A m \in DOMAIN Nodes : Nodes[m].parent = Nodes[d].parent => m \in visited
  /\ (version = "refactored" /\ outcome = "returned") =>
       _result # None /\ _result[1].stats = stats

\* the iteration of u has failed at no.py after a.py was analysed, and w.md and lnk,
\* which come after u, have been reached; the result is returned
C23_Witness ==
  /\ tree = 5 /\ order = "asc" /\ outcome = "returned"
  /\ 5 \in visited /\ 6 \notin visited
  /\ \E i \in 1..Len(files) : files[i].path = path_of(3)
  /\ {7, 8} \subseteq visited

(***************************************************************************)
(* C24: validation of the limits                                            *)
(***************************************************************************)
\* the value is one the validators of Config reject for the field
InvalidLimit(field, value) ==
  \/ field = "max_file_size_mb" /\ value # None /\ value[1] <= 0
  \/ field = "max_depth" /\ value # None /\ value[1] < 0

\* C24: a non-positive max file size or a negative max depth is rejected before any
\* traversal starts, however it is given: to Config(...), by assignment to a Config, or
\* as the max_depth argument of the analyzer. No construction or assignment accepts
\* such a value, and no walk runs under one.
C24_LimitsValidatedBeforeTraversal ==
  /\ InvalidLimit(config_call.field, config_call.value) => config_call.raised # "none"
  /\ pc \notin {"configuring"} =>
       /\ ~InvalidLimit("max_depth", given.max_depth)
       /\ ~InvalidLimit("max_depth", max_depth)
       /\ ~InvalidLimit("max_file_size_mb", Some(config.max_file_size_mb))

(***************************************************************************)
(* C25: symbolic links to directories                                       *)
(***************************************************************************)
\* the entry is, or lies below, a symbolic link to a directory
RECURSIVE ThroughLink(_)
ThroughLink(n) ==
  IF n = Root THEN FALSE
  ELSE Nodes[n].link \/ ThroughLink(Nodes[n].parent)

\* C25: with follow_symlinks = false the walk does not descend into a directory reached
\* through a symbolic link: no such directory is listed and no file below one is
\* analysed.
C25_SymlinkedDirectoryNotEntered ==
  (version = "refactored" /\ ~config.follow_symlinks) =>
    /\ \A k \in 1..Len(stack) : ~ThroughLink(stack[k].directory)
    /\ \A i \in 1..Len(log) : ~ThroughLink(log[i][2])
    /\ \A i \in 1..Len(files) : ~ThroughLink(NodeAt(files[i].path))

(***************************************************************************)
(* C26: termination of the walk                                             *)
(***************************************************************************)
\* how often the last analyze() call listed directory d, or analysed file n
Occurrences(event) ==
  Cardinality({i \in 1..Len(log) : log[i] = event})

\* the depth limit, if any, lets the walk reach the entry; a requested limit of 0 is
\* taken for no limit by both analyzers, and nothing is said of it here
WithinLimit(n) ==
  \/ RequestedLimit = None
  \/ /\ RequestedLimit[1] >= 1
     /\ (IF Nodes[n].kind = "dir" THEN DepthOf(n) ELSE DepthOf(n) - 1) <= RequestedLimit[1]

\* the walk has listed no directory and analysed no file twice, it has listed every
\* listable directory and analysed every file that nothing keeps it from, and the file
\* list of the refactored result names no file twice
EachEntryOnce ==
  /\ \A d \in DirNodes :
       /\ Occurrences(<<"list", d>>) <= 1
       /\ (Eligible(d) /\ Nodes[d].list_ok /\ WithinLimit(d)) => Occurrences(<<"list", d>>) = 1
  /\ \A n \in FileNodes :
       /\ Occurrences(<<"file", n>>) <= 1
       /\ (Eligible(n) /\ WithinLimit(n)) => Occurrences(<<"file", n>>) = 1
  /\ version = "refactored" =>
       \A i, j \in 1..Len(files) : files[i].path = files[j].path => i = j

IgnoredUnderDefaults(n) ==
  should_ignore_path(path_of(n), DEFAULT_IGNORE_PATTERNS)

\* C27: custom ignore patterns extend the defaults: an analyzer constructed with custom
\* patterns lists no directory and analyses no file whose path the default patterns
\* alone ignore.
C27_CustomPatternsExtendDefaults ==
  given.ignore_patterns # <<>> =>
    \A i \in 1..Len(log) : ~IgnoredUnderDefaults(log[i][2])

(***************************************************************************)
(* C28: the largest files of the result                                     *)
(***************************************************************************)
\* the record is one of the list's
HasRecord(list, rec) ==
  \E j \in 1..Len(list) : list[j] = rec

\* C28: the largest files of the result are the first 10 of the whole file list sorted
\* by size, largest first, equal sizes in the order the files were found, which is what
\* get_largest_files(10) returns; the 20 kept while the walk runs always start with
\* those 10; and every record of the largest files is a record of the file list.
C28_LargestFilesAreTheTopTen ==
  /\ version = "refactored" =>
       Slice(largest_files, KeepInResult) = Slice(sorted_by_size_reverse(files), KeepInResult)
  /\ _result # None =>
       /\ _result[1].largest_files = get_largest_files(_result[1], KeepInResult)
       /\ \A i \in 1..Len(_result[1].largest_files) :
            HasRecord(_result[1].files, _result[1].largest_files[i])

\* more files than the walk keeps, a late file that is neither the largest nor the
\* smallest so far, and equal sizes on both sides of the tenth place
C28_Witness ==
  /\ _result # None
  /\ Len(_result[1].files) > KeepDuringAnalysis
  /\ Len(_result[1].largest_files) = KeepInResult
  /\ ~Monotone(_result[1].files)
  /\ \E j \in 1..Len(_result[1].files) :
       /\ _result[1].files[j].size = _result[1].largest_files[KeepInResult].size
       /\ ~HasRecord(_result[1].largest_files, _result[1].files[j])
  /\ _result[1].largest_files[1].size > _result[1].largest_files[KeepInResult].size

(***************************************************************************)
(* C29: progress                                                            *)
(***************************************************************************)
\* C29: whenever the progress callback fires, that is whenever a file has been folded in
\* and processed_items has gone up, processed_items is at most total_items.
C29_ProcessedAtMostTotal ==
  [][progress'.processed_items # progress.processed_items =>
       progress'.processed_items <= progress'.total_items]_vars

(***************************************************************************)
(* C30: a root whose own path matches an ignore pattern                     *)
(***************************************************************************)
\* the root's path contains an ignore pattern in effect that does not start with `*`
RootIgnored ==
  \E i \in 1..Len(PatternsInEffect) :
    /\ ~startswith(PatternsInEffect[i], <<"*">>)
    /\ In(PatternsInEffect[i], path_of(Root))

\* C30: the ignore patterns are matched against the whole path, that of the root
\* included: when the root's path contains an ignore pattern that does not start with
\* `*`, analyze() lists no directory and analyses no file, has nothing left to do but
\* return, and every result it returns has total_files = 0 and total_dirs = 0.
C30_IgnoredRootYieldsEmptyResult ==
  RootIgnored =>
    /\ stack = <<>> /\ log = <<>> /\ files = <<>>
    /\ \A i \in 1..Len(returned) :
         /\ returned[i].stats.total_files = 0
         /\ returned[i].stats.total_dirs = 0

\* analyze() has returned on the project under /build, which holds files and a directory
C30_Witness ==
  /\ RootIgnored
  /\ tree = 6
  /\ FileNodes # {} /\ \E n \in DOMAIN Nodes : n # Root /\ Nodes[n].kind = "dir"
  /\ pc = "idle" /\ outcome = "returned"
  /\ returned # <<>>
  /\ returned[Len(returned)].stats.total_files = 0
  /\ returned[Len(returned)].stats.total_dirs = 0

====
